---------------------------- MODULE Spec2Model ----------------------------
(***************************************************************************)
(* Model of the string library common/str.c: the resumable UTF-8 decoder   *)
(* (_str_decode and its entry points mbrtoc32, str_decode, str_decode_r,   *)
(* str_decode_reverse), the encoder chr_encode, the sanitizer              *)
(* _str_sanitize, the bounded copies (str_cpy, str_ncpy, str_append), the  *)
(* comparisons, the tokenizer, the metrics, str_rtrim and the conversions  *)
(* from and to wide strings and UTF-16.                                    *)
(*                                                                         *)
(* Byte buffers are sequences of numbers 0..255; the C index i of a buffer *)
(* s is At(s, i).  An mbstate_t is its 16 bit `state` field.               *)
(***************************************************************************)
EXTENDS Integers, Sequences, FiniteSets, TLC

(***************************************************************************)
(* State.  Each part of the library has its own variables (described with  *)
(* the part) and its own specification, under which the other parts stay   *)
(* idle.                                                                   *)
(***************************************************************************)
VARIABLES inp, mb, pend, call,
          sbuf, srepl, woff, wmb, wout, boff, bmb, bout,
          dst, esize, eoff, ecall, rt,
          smem, sn, srp, scalls, sprev, scount,
          cdst, csize, csrc, ccall,
          cmp1, cmp2, char_signed, cmpres,
          tbuf, tbuf0, tdelim, ts, ttoks, tdone,
          lstr, lmax, lres,
          rstr, rch, rres,
          udest, udlen, usrc, ures,
          xdest, xsize, xsrc, xres,
          ndst, nsize, nsrc, nn, ndebug, ncall,
          fin, fpos, gstate, fres,
          mstr, msize, mfn, moff, mcount, mret,
          vstr, voff, vout, vlast

decVars == <<inp, mb, pend, call>>
streamVars == <<sbuf, srepl, woff, wmb, wout, boff, bmb, bout>>
encVars == <<dst, esize, eoff, ecall, rt>>
sanVars == <<smem, sn, srp, scalls, sprev, scount>>
cpyVars == <<cdst, csize, csrc, ccall>>
cmpVars == <<cmp1, cmp2, char_signed, cmpres>>
tokVars == <<tbuf, tbuf0, tdelim, ts, ttoks, tdone>>
lszVars == <<lstr, lmax, lres>>
trimVars == <<rstr, rch, rres>>
u16Vars == <<udest, udlen, usrc, ures>>
convVars == <<xdest, xsize, xsrc, xres>>
ncpyVars == <<ndst, nsize, nsrc, nn, ndebug, ncall>>
fibVars == <<fin, fpos, gstate, fres>>
metVars == <<mstr, msize, mfn, moff, mcount, mret>>
revVars == <<vstr, voff, vout, vlast>>
vars ==
    <<decVars, streamVars, encVars, sanVars, cpyVars, cmpVars, tokVars, lszVars,
      trimVars, u16Vars, convVars, ncpyVars, fibVars, metVars, revVars>>

\* The variables of the other parts.
notDec ==
    <<streamVars, encVars, sanVars, cpyVars, cmpVars,
      tokVars, lszVars, trimVars, u16Vars, convVars, ncpyVars, fibVars, metVars, revVars>>
notStream ==
    <<decVars, encVars, sanVars, cpyVars, cmpVars,
      tokVars, lszVars, trimVars, u16Vars, convVars, ncpyVars, fibVars, metVars, revVars>>
notEnc ==
    <<decVars, streamVars, sanVars, cpyVars, cmpVars,
      tokVars, lszVars, trimVars, u16Vars, convVars, ncpyVars, fibVars, metVars, revVars>>
notSan ==
    <<decVars, streamVars, encVars, cpyVars, cmpVars,
      tokVars, lszVars, trimVars, u16Vars, convVars, ncpyVars, fibVars, metVars, revVars>>
notCpy ==
    <<decVars, streamVars, encVars, sanVars, cmpVars,
      tokVars, lszVars, trimVars, u16Vars, convVars, ncpyVars, fibVars, metVars, revVars>>
notCmp ==
    <<decVars, streamVars, encVars, sanVars, cpyVars,
      tokVars, lszVars, trimVars, u16Vars, convVars, ncpyVars, fibVars, metVars, revVars>>
notTok ==
    <<decVars, streamVars, encVars, sanVars, cpyVars,
      cmpVars, lszVars, trimVars, u16Vars, convVars, ncpyVars, fibVars, metVars, revVars>>
notLsz ==
    <<decVars, streamVars, encVars, sanVars, cpyVars,
      cmpVars, tokVars, trimVars, u16Vars, convVars, ncpyVars, fibVars, metVars, revVars>>
notTrim ==
    <<decVars, streamVars, encVars, sanVars, cpyVars,
      cmpVars, tokVars, lszVars, u16Vars, convVars, ncpyVars, fibVars, metVars, revVars>>
notU16 ==
    <<decVars, streamVars, encVars, sanVars, cpyVars,
      cmpVars, tokVars, lszVars, trimVars, convVars, ncpyVars, fibVars, metVars, revVars>>
notConv ==
    <<decVars, streamVars, encVars, sanVars, cpyVars,
      cmpVars, tokVars, lszVars, trimVars, u16Vars, ncpyVars, fibVars, metVars, revVars>>
notNcpy ==
    <<decVars, streamVars, encVars, sanVars, cpyVars,
      cmpVars, tokVars, lszVars, trimVars, u16Vars, convVars, fibVars, metVars, revVars>>
notFib ==
    <<decVars, streamVars, encVars, sanVars, cpyVars,
      cmpVars, tokVars, lszVars, trimVars, u16Vars, convVars, ncpyVars, metVars, revVars>>
notMet ==
    <<decVars, streamVars, encVars, sanVars, cpyVars,
      cmpVars, tokVars, lszVars, trimVars, u16Vars, convVars, ncpyVars, fibVars, revVars>>
notRev ==
    <<decVars, streamVars, encVars, sanVars, cpyVars,
      cmpVars, tokVars, lszVars, trimVars, u16Vars, convVars, ncpyVars, fibVars, metVars>>

(***************************************************************************)
(* Bounds of the model.                                                    *)
(***************************************************************************)
MaxLen == 4
MaxDst == 5
Spread == 1
MaxSan == 4
MaxCap == 4
MaxSrc == 3
MaxOld == 2
MaxStr == 3
MaxTok == 5

(***************************************************************************)
(* Bit arithmetic on naturals.  A mask of contiguous bits is taken by      *)
(* division and remainder: x & 0b00111111 is x % 64, x & 0xC0 is x \div 64  *)
(* (times 64).                                                             *)
(***************************************************************************)
RECURSIVE BitXor(_, _)
BitXor(a, b) ==
    IF a = 0 THEN b
    ELSE IF b = 0 THEN a
    ELSE ((a + b) % 2) + 2 * BitXor(a \div 2, b \div 2)

RECURSIVE Pow2(_)
Pow2(n) == IF n = 0 THEN 1 ELSE 2 * Pow2(n - 1)

\* Truncation to the 16 bit state field of mbstate_t (str.c:270-274).
U16(x) == x % 65536

\* s[i] for a C index i.
At(s, i) == s[i + 1]

(***************************************************************************)
(* Constants of str.c.                                                     *)
(***************************************************************************)
\* #define CONT_BITS 6
CONT_BITS == 6
\* #define UTF8_MASK_INITIAL2 0b00011111
UTF8_MASK_INITIAL2 == 31
\* #define UTF8_MASK_INITIAL3 0b00001111
UTF8_MASK_INITIAL3 == 15
\* #define UTF8_MASK_INITIAL4 0b00000111
UTF8_MASK_INITIAL4 == 7
\* #define UTF8_MASK_CONT 0b00111111
UTF8_MASK_CONT == 63
\* #define CHAR_INVALID ((char32_t) UINT_MAX): the all-ones word, which no
\* decoded value (at most 21 bits) equals; written as the same bit pattern
\* read as a signed 32 bit integer.
CHAR_INVALID == -1
\* U_SPECIAL is '?' (str.h).
U_SPECIAL == 63
\* Return values of mbrtoc32 (uchar.h): (size_t) -1 and (size_t) -2.
UCHAR_ILSEQ == -1
UCHAR_INCOMPLETE == -2
\* STR_NO_LIMIT is ((size_t) -1) (str.h): a size no buffer reaches, here the
\* largest integer.
STR_NO_LIMIT == 2147483647
\* The null pointer, where the model has an index.
NULL == -1
\* errno values, kept as names.
EOK == "EOK"
EOVERFLOW == "EOVERFLOW"
EINVAL == "EINVAL"

\* LO_MASK_8(n), LO_MASK_32(n): the lowest n bits.
LO_MASK_8(n) == Pow2(n) - 1
LO_MASK_32(n) == Pow2(n) - 1
\* HI_MASK_8(n): ~LO_MASK_8(8 - n), as stored into a byte.
HI_MASK_8(n) == 255 - LO_MASK_8(8 - n)

(***************************************************************************)
(* Byte classification.                                                    *)
(***************************************************************************)
_is_ascii(b) == b < 128

\* (b & 0xC0) == 0x80
_is_continuation(b) == b \div 64 = 2

\* (c & 0xE0) == 0xC0
_is_2_byte(c) == c \div 32 = 6

\* (c & 0xF0) == 0xE0
_is_3_byte(c) == c \div 16 = 14

\* (c & 0xF8) == 0xF0
_is_4_byte(c) == c \div 8 = 30

_char_continuation_bytes(c) ==
    IF c \div Pow2(7) = 0 THEN 0
    ELSE IF c \div Pow2(11) = 0 THEN 1
    ELSE IF c \div Pow2(16) = 0 THEN 2
    ELSE IF c \div Pow2(21) = 0 THEN 3
    ELSE -1

\* _continuation_bytes with a continuation byte taken for a whole character.
_continuation_bytes_orphans(b) ==
    IF _is_ascii(b) \/ _is_continuation(b) THEN 0
    ELSE IF _is_2_byte(b) THEN 1
    ELSE IF _is_3_byte(b) THEN 2
    ELSE IF _is_4_byte(b) THEN 3
    ELSE -1

_continuation_bytes(b) ==
    IF _is_ascii(b) THEN 0
    ELSE IF _is_2_byte(b) THEN 1
    ELSE IF _is_3_byte(b) THEN 2
    ELSE IF _is_4_byte(b) THEN 3
    ELSE -1

\* _is_non_shortest without its 4 byte case.
_is_non_shortest_3only(state, b) == state = 64512 /\ (b \div 32) % 2 = 0

\* state == 0b1111110000000000 is a pending 0xE0 leader, 0b1111111111110000 a
\* pending 0xF0 leader.
_is_non_shortest(state, b) ==
    \/ (state = 64512 /\ (b \div 32) % 2 = 0)
    \/ (state = 65520 /\ (b \div 16) % 4 = 0)

\* state == 0b1111110000001101 is a pending 0xED leader.
_is_surrogate(state, b) == state = 64525 /\ b >= 160

(***************************************************************************)
(* _str_decode(s, offset, size, mb).  The result is a record: ret, the     *)
(* value returned; offset and state, *offset and mb->state on return;      *)
(* reads, the C indices of s the call read.                                *)
(***************************************************************************)
DecRes(ret, offset, state, reads) ==
    [ret |-> ret, offset |-> offset, state |-> state, reads |-> reads]

\* Reject without the reset of the state.
Reject_keep(offset, state, reads) == DecRes(CHAR_INVALID, offset, state, reads)

\* str.c:355-356: mb->state = 0; return CHAR_INVALID; with the cursor left on
\* the offending byte.
Reject(offset, state, reads) == DecRes(CHAR_INVALID, offset, 0, reads)

\* The loop not run: the state is stored and the call returns 0 at once.
_str_decode_loop_stop(s, offset, size, state, reads) ==
    DecRes(0, offset, state, reads)

\* The loop of str.c:350-372, entered with a pending state.
RECURSIVE _str_decode_loop(_, _, _, _, _)
_str_decode_loop(s, offset, size, state, reads) ==
    IF ~(offset < size)
    THEN DecRes(0, offset, state, reads)
    ELSE
      LET b == At(s, offset)
          rd == reads \cup {offset}
      IN IF ~_is_continuation(b) \/ _is_non_shortest(state, b)
               \/ _is_surrogate(state, b)
         THEN Reject(offset, state, rd)
         ELSE IF state \div 32768 = 0
         THEN DecRes(state * 64 + (b % (UTF8_MASK_CONT + 1)), offset + 1, 0, rd)
         ELSE _str_decode_loop(s, offset + 1, size,
                  U16(state * 64 + (b % (UTF8_MASK_CONT + 1))), rd)

\* Decode2 with the fast path looking at the next byte of the buffer whether
\* or not it lies below the limit.
Decode2_nolimit(s, offset, size, b, reads) ==
    IF (b \div 2) % 16 = 0
    THEN DecRes(CHAR_INVALID, offset, 0, reads)
    ELSE IF offset < Len(s) /\ _is_continuation(At(s, offset))
    THEN DecRes((b % (UTF8_MASK_INITIAL2 + 1)) * 64
                  + (At(s, offset) % (UTF8_MASK_CONT + 1)),
                offset + 1, 0, reads \cup {offset})
    ELSE _str_decode_loop(s, offset, size, BitXor(b, 192),
             reads \cup (IF offset < Len(s) THEN {offset} ELSE {}))

\* The 2 byte leader branch, str.c:276-289; offset is past the leader b.
Decode2(s, offset, size, b, reads) ==
    IF (b \div 2) % 16 = 0
    THEN DecRes(CHAR_INVALID, offset, 0, reads)
    ELSE IF offset < size /\ _is_continuation(At(s, offset))
    THEN DecRes((b % (UTF8_MASK_INITIAL2 + 1)) * 64
                  + (At(s, offset) % (UTF8_MASK_CONT + 1)),
                offset + 1, 0, reads \cup {offset})
    ELSE _str_decode_loop(s, offset, size, BitXor(b, 192),
             reads \cup (IF offset < size THEN {offset} ELSE {}))

\* The 3 byte leader branch, str.c:291-315.
Decode3(s, offset, size, b, reads) ==
    IF /\ offset + 1 < size
       /\ _is_continuation(At(s, offset))
       /\ _is_continuation(At(s, offset + 1))
    THEN
      LET ch == (b % (UTF8_MASK_INITIAL3 + 1)) * 4096
                  + (At(s, offset) % (UTF8_MASK_CONT + 1)) * 64
                  + (At(s, offset + 1) % (UTF8_MASK_CONT + 1))
          rd == reads \cup {offset, offset + 1}
      IN IF ch \div 2048 = 0
         THEN DecRes(CHAR_INVALID, offset + 2, 0, rd)
         ELSE IF ch >= 55296 /\ ch < 57344
         THEN DecRes(CHAR_INVALID, offset + 2, 0, rd)
         ELSE DecRes(ch, offset + 2, 0, rd)
    ELSE _str_decode_loop(s, offset, size, BitXor(b, 64736),
             reads \cup (IF offset + 1 < size
                         THEN IF _is_continuation(At(s, offset))
                              THEN {offset, offset + 1} ELSE {offset}
                         ELSE {}))

\* The 4 byte leader branch, str.c:317-343.
Decode4(s, offset, size, b, reads) ==
    IF /\ offset + 2 < size
       /\ _is_continuation(At(s, offset))
       /\ _is_continuation(At(s, offset + 1))
       /\ _is_continuation(At(s, offset + 2))
    THEN
      LET ch == (b % (UTF8_MASK_INITIAL4 + 1)) * 262144
                  + (At(s, offset) % (UTF8_MASK_CONT + 1)) * 4096
                  + (At(s, offset + 1) % (UTF8_MASK_CONT + 1)) * 64
                  + (At(s, offset + 2) % (UTF8_MASK_CONT + 1))
          rd == reads \cup {offset, offset + 1, offset + 2}
      IN IF ch \div 65536 = 0
         THEN DecRes(CHAR_INVALID, offset + 3, 0, rd)
         ELSE IF ch >= 1114112
         THEN DecRes(CHAR_INVALID, offset + 3, 0, rd)
         ELSE DecRes(ch, offset + 3, 0, rd)
    ELSE _str_decode_loop(s, offset, size, BitXor(b, 65280),
             reads \cup (IF offset + 2 < size
                         THEN IF _is_continuation(At(s, offset))
                              THEN IF _is_continuation(At(s, offset + 1))
                                   THEN {offset, offset + 1, offset + 2}
                                   ELSE {offset, offset + 1}
                              ELSE {offset}
                         ELSE {}))

_str_decode(s, offset, size, state) ==
    IF offset = size
    THEN DecRes(0, offset, state, {})
    ELSE IF state = 0
    THEN
      LET b == At(s, offset)
          rd == {offset}
      IN IF _is_ascii(b) THEN DecRes(b, offset + 1, 0, rd)
         ELSE IF _is_continuation(b) THEN DecRes(CHAR_INVALID, offset + 1, 0, rd)
         ELSE IF _is_2_byte(b) THEN Decode2(s, offset + 1, size, b, rd)
         ELSE IF _is_3_byte(b) THEN Decode3(s, offset + 1, size, b, rd)
         ELSE IF _is_4_byte(b) THEN Decode4(s, offset + 1, size, b, rd)
         ELSE DecRes(CHAR_INVALID, offset + 1, 0, rd)
    ELSE _str_decode_loop(s, offset, size, state, {})

(***************************************************************************)
(* The decoder's callers.  inp is the input the caller has not consumed    *)
(* yet and mb the mbstate_t it keeps between calls.  call records the call *)
(* that has just returned: its entry point (op), the cursor, state and     *)
(* limit it was entered with (off0, mb0, size), what _str_decode returned  *)
(* (ret), the cursor and the state of the mbstate_t it used on return      *)
(* (offset, state), the indices of inp it read (reads) and what the entry  *)
(* point returned (wret).  pend holds the bytes the stateful decoder has   *)
(* consumed of a sequence it has not finished (pend0: before the call).    *)
(* Return hands the result to the caller, which drops the bytes up to the  *)
(* cursor and is ready for its next call.                                  *)
(***************************************************************************)
\* Bytes of the classes the decoder distinguishes: NUL (ASCII), the
\* continuation bytes 0x80 (over-long after 0xE0 and 0xF0) and 0xA0 (a
\* surrogate after 0xED, out of range after 0xF4), the over-long leader 0xC0
\* and the leaders 0xC2 0xE0 0xED 0xF0 0xF4.
DecBytes == {0, 128, 160, 192, 194, 224, 237, 240, 244}

RECURSIVE SeqsUpTo(_, _)
SeqsUpTo(S, n) ==
    IF n = 0 THEN {<<>>}
    ELSE LET shorter == SeqsUpTo(S, n - 1)
         IN shorter \cup {Append(q, x) : q \in {p \in shorter : Len(p) = n - 1}, x \in S}

NoCall ==
    [op |-> "none", off0 |-> 0, mb0 |-> 0, size |-> 0, ret |-> 0, offset |-> 0,
     state |-> 0, reads |-> {}, wret |-> 0, pend0 |-> <<>>]

\* No decoding under way: the state of this part under the specifications
\* of the other parts.
DecIdle == inp = <<>> /\ mb = 0 /\ pend = <<>> /\ call = NoCall

DecInit ==
    /\ inp \in SeqsUpTo(DecBytes, MaxLen)
    /\ mb = 0
    /\ pend = <<>>
    /\ call = NoCall

\* The bytes of s at the C indices from..to-1.
Bytes(s, from, to) == SubSeq(s, from + 1, to)

\* mbrtoc32's return value without the test of the pending state.
mbrtoc32_ret_nopending(r) ==
    IF r.ret = CHAR_INVALID THEN UCHAR_ILSEQ
    ELSE IF r.ret # 0 THEN r.offset
    ELSE 0

\* What mbrtoc32 returns for the result r of its _str_decode (str.c:394-406).
mbrtoc32_ret(r) ==
    IF r.ret = CHAR_INVALID THEN UCHAR_ILSEQ
    ELSE IF r.state # 0 THEN UCHAR_INCOMPLETE
    ELSE IF r.ret # 0 THEN r.offset
    ELSE 0

\* mbrtoc32(&c, inp, n, &mb): decodes from offset 0 of the first n bytes of
\* the input.
Mbrtoc32(n) ==
    /\ call.op = "none"
    /\ n \in 0..Len(inp)
    /\ \E r \in {_str_decode(inp, 0, n, mb)} :
          /\ mb' = r.state
          /\ call' = [op |-> "mbrtoc32", off0 |-> 0, mb0 |-> mb,
                      size |-> n, ret |-> r.ret, offset |-> r.offset,
                      state |-> r.state, reads |-> r.reads,
                      wret |-> mbrtoc32_ret(r), pend0 |-> pend]
          /\ pend' = IF r.state # 0
                     THEN pend \o Bytes(inp, 0, r.offset)
                     ELSE <<>>
    /\ UNCHANGED <<inp, notDec>>

\* What str_decode returns (str.c:429-432).
str_decode_ret(r) ==
    IF r.ret = CHAR_INVALID \/ r.state # 0 THEN U_SPECIAL ELSE r.ret

\* str_decode(inp, &offset, size), from any offset up to size: a fresh
\* mbstate_t of its own, dropped on return.  A caller in the middle of a
\* sequence of the stateful decoder does not switch to it.
StrDecode(offset, size) ==
    /\ call.op = "none"
    /\ mb = 0
    /\ offset \in 0..size
    /\ size \in 0..Len(inp)
    /\ \E r \in {_str_decode(inp, offset, size, 0)} :
          call' = [op |-> "str_decode", off0 |-> offset, mb0 |-> 0,
                   size |-> size, ret |-> r.ret, offset |-> r.offset,
                   state |-> r.state, reads |-> r.reads,
                   wret |-> str_decode_ret(r), pend0 |-> <<>>]
    /\ UNCHANGED <<inp, mb, pend, notDec>>

\* The caller takes the result and moves past the bytes up to the cursor.
Return ==
    /\ call.op # "none"
    /\ inp' = Bytes(inp, call.offset, Len(inp))
    /\ call' = NoCall
    /\ UNCHANGED <<mb, pend, notDec>>

DecNext ==
    \/ \E n \in 0..MaxLen : Mbrtoc32(n)
    \/ \E offset \in 0..MaxLen, size \in 0..MaxLen : StrDecode(offset, size)
    \/ Return

(***************************************************************************)
(* Streaming: the same buffer decoded twice with str_decode_r, first with  *)
(* the whole buffer as the limit (cursor woff, state wmb, results wout),   *)
(* then one byte at a time, the limit one past the cursor (boff, bmb,      *)
(* bout).  A call that leaves its state pending returned "incomplete" and  *)
(* adds no result.                                                         *)
(***************************************************************************)
\* The replacement characters callers of str_decode_r pass.
Replacements == {U_SPECIAL, 65533}

StreamIdle ==
    /\ sbuf = <<>> /\ srepl = U_SPECIAL
    /\ woff = 0 /\ wmb = 0 /\ wout = <<>>
    /\ boff = 0 /\ bmb = 0 /\ bout = <<>>

StreamInit ==
    /\ sbuf \in SeqsUpTo(DecBytes, MaxLen)
    /\ srepl \in Replacements
    /\ woff = 0 /\ wmb = 0 /\ wout = <<>>
    /\ boff = 0 /\ bmb = 0 /\ bout = <<>>

\* str_decode_r (str.c:435-440): the result r of its _str_decode, with
\* CHAR_INVALID turned into the replacement.
str_decode_r(s, offset, size, replacement, state) ==
    LET r == _str_decode(s, offset, size, state)
    IN [r EXCEPT !.ret = IF r.ret = CHAR_INVALID THEN replacement ELSE r.ret]

WholeCall ==
    /\ woff < Len(sbuf)
    /\ \E r \in {str_decode_r(sbuf, woff, Len(sbuf), srepl, wmb)} :
          /\ woff' = r.offset
          /\ wmb' = r.state
          /\ wout' = IF r.state # 0 THEN wout ELSE Append(wout, r.ret)
    /\ UNCHANGED <<sbuf, srepl, boff, bmb, bout, notStream>>

ByteCall ==
    /\ woff = Len(sbuf)
    /\ boff < Len(sbuf)
    /\ \E r \in {str_decode_r(sbuf, boff, boff + 1, srepl, bmb)} :
          /\ boff' = r.offset
          /\ bmb' = r.state
          /\ bout' = IF r.state # 0 THEN bout ELSE Append(bout, r.ret)
    /\ UNCHANGED <<sbuf, srepl, woff, wmb, wout, notStream>>

StreamNext == WholeCall \/ ByteCall

(***************************************************************************)
(* The encoder.  dst is the caller's memory, esize the size it declares    *)
(* for it and eoff its cursor.  ecall records the chr_encode call that has *)
(* returned: the character (ch), the cursor and the memory it was entered  *)
(* with (off0, dst0), its return value (rc) and the indices it wrote       *)
(* (writes).  rt records the str_decode of the bytes written: the value    *)
(* returned (ret) and the cursor on return (offset).                       *)
(***************************************************************************)
\* chr_check (str.c:893-899).
chr_check_21bits(ch) == ch <= 2097151

chr_check(ch) == ch <= 1114111

EncRes(rc, str, offset, writes) ==
    [rc |-> rc, str |-> str, offset |-> offset, writes |-> writes]

\* str[i] = v for a C index i.
Put(str, i, v) == [str EXCEPT ![i + 1] = v]

\* The loop of str.c:528-531: the continuation bytes i..1, last first, each
\* taking the low CONT_BITS bits of ch.  The result is the memory and what
\* is left of ch.
RECURSIVE EncodeCont(_, _, _, _)
EncodeCont(str, offset, ch, i) ==
    IF i = 0 THEN [str |-> str, ch |-> ch]
    ELSE EncodeCont(Put(str, offset + i, 128 + (ch % (LO_MASK_32(CONT_BITS) + 1))),
                    offset, ch \div Pow2(CONT_BITS), i - 1)

\* The room test of str.c:523 off by one.
NoRoom_offbyone(offset, cbytes, size) == offset + cbytes > size

\* str.c:523: if (*offset + cbytes >= size) return EOVERFLOW.
NoRoom(offset, cbytes, size) == offset + cbytes >= size

\* The thresholds of _char_continuation_bytes with 12 bits for two bytes.
ContinuationBytesOf_12bits(ch) ==
    IF ch \div Pow2(7) = 0 THEN 0
    ELSE IF ch \div Pow2(12) = 0 THEN 1
    ELSE IF ch \div Pow2(16) = 0 THEN 2
    ELSE IF ch \div Pow2(21) = 0 THEN 3
    ELSE -1

\* str.c:519: unsigned int cbytes = _char_continuation_bytes(ch).
ContinuationBytesOf(ch) == _char_continuation_bytes(ch)

chr_encode(ch, str, offset, size) ==
    IF offset >= size THEN EncRes(EOVERFLOW, str, offset, {})
    ELSE IF ch < 128 THEN EncRes(EOK, Put(str, offset, ch), offset + 1, {offset})
    ELSE IF ~chr_check(ch) THEN EncRes(EINVAL, str, offset, {})
    ELSE
      LET cbytes == ContinuationBytesOf(ch)
          b0_bits == 6 - cbytes
      IN IF NoRoom(offset, cbytes, size) THEN EncRes(EOVERFLOW, str, offset, {})
         ELSE
           LET c == EncodeCont(str, offset, ch, cbytes)
               b0 == (c.ch % (LO_MASK_32(b0_bits) + 1)) + HI_MASK_8(8 - b0_bits - 1)
           IN EncRes(EOK, Put(c.str, offset, b0), offset + cbytes + 1,
                     offset..(offset + cbytes))

\* The characters encoded: the values at which the encoding changes (the bit
\* widths 7, 11, 16 and 21, the surrogate range, the last code point) and
\* their neighbours; the largest is the largest value the checker's integers
\* hold, which chr_check treats like every value above 0x10FFFF.
EdgeScalars ==
    {0, 65, 127, 128, 2047, 2048, 55295, 55296, 57343, 57344, 65535, 65536,
     1114111, 1114112, 2097151, 2097152, 2147483647 - Spread}

Scalars == {c \in {e + d : e \in EdgeScalars, d \in (0 - Spread)..Spread} : c >= 0}

NoEncode ==
    [op |-> "none", ch |-> 0, off0 |-> 0, dst0 |-> <<>>, rc |-> EOK, writes |-> {}]

NoRoundTrip == [op |-> "none", ret |-> 0, offset |-> 0]

\* The memory holds one byte more than the largest size declared for it, all
\* 0xAA before the call.
EncInit ==
    /\ dst = [i \in 1..(MaxDst + 1) |-> 170]
    /\ esize \in 0..MaxDst
    /\ eoff \in 0..MaxDst
    /\ ecall = NoEncode
    /\ rt = NoRoundTrip

EncIdle ==
    /\ dst = <<>> /\ esize = 0 /\ eoff = 0 /\ ecall = NoEncode /\ rt = NoRoundTrip

\* chr_encode(ch, dst, &eoff, esize).
ChrEncode(ch) ==
    /\ ecall.op = "none"
    /\ \E r \in {chr_encode(ch, dst, eoff, esize)} :
          /\ dst' = r.str
          /\ eoff' = r.offset
          /\ ecall' = [op |-> "chr_encode", ch |-> ch, off0 |-> eoff,
                       dst0 |-> dst, rc |-> r.rc, writes |-> r.writes]
    /\ UNCHANGED <<esize, rt, notEnc>>

\* After a successful chr_encode: str_decode over exactly the bytes written,
\* from where the character was put to the cursor.
DecodeWritten ==
    /\ ecall.op = "chr_encode" /\ ecall.rc = EOK
    /\ rt.op = "none"
    /\ \E r \in {_str_decode(dst, ecall.off0, eoff, 0)} :
          rt' = [op |-> "str_decode", ret |-> str_decode_ret(r),
                 offset |-> r.offset]
    /\ UNCHANGED <<dst, esize, eoff, ecall, notEnc>>

EncNext ==
    \/ \E ch \in Scalars : ChrEncode(ch)
    \/ DecodeWritten

(***************************************************************************)
(* The sanitizer.  smem is a zero-terminated buffer, sn the number of bytes *)
(* the caller lets str_sanitize look at and srp the replacement byte.       *)
(* scalls counts the calls made, sprev is the buffer before the last call   *)
(* and scount what the last call returned.                                  *)
(***************************************************************************)
SanRes(str, count) == [str |-> str, count |-> count]

\* str.c:593: bool c1_control = (b[0] == 0b11000010 && b[1] < 0b10100000).
c1_control(b0, b1) == b0 = 194 /\ b1 < 160

\* The test of str.c:567-573 on b[1] alone.
ContinuationsValid_first(str, i, k, cont) == _is_continuation(At(str, i + 1))

\* The continuation bytes b[1..cont] are all continuation bytes
\* (str.c:567-573); each is read only if those before it are.
RECURSIVE ContinuationsValid(_, _, _, _)
ContinuationsValid(str, i, k, cont) ==
    IF k > cont THEN TRUE
    ELSE IF ~_is_continuation(At(str, i + k)) THEN FALSE
    ELSE ContinuationsValid(str, i, k + 1, cont)

\* The tests of str.c:587-626 with the surrogate test on the leader alone.
SequenceRejected_everyED(b0, b1, cont) ==
    \/ cont = 1 /\ (b0 \div 2) % 16 = 0
    \/ cont = 1 /\ c1_control(b0, b1)
    \/ cont = 2 /\ b0 % 16 = 0 /\ (b1 \div 32) % 2 = 0
    \/ cont = 3 /\ b0 % 8 = 0 /\ (b1 \div 16) % 4 = 0
    \/ cont = 2 /\ b0 = 237
    \/ cont = 3 /\ (b0 > 244 \/ (b0 = 244 /\ b1 >= 144))

\* The tests of str.c:587-626 that reject a sequence whose continuation
\* bytes are in place: non-shortest forms, the C1 controls, surrogates and
\* values out of range.
SequenceRejected(b0, b1, cont) ==
    \/ cont = 1 /\ (b0 \div 2) % 16 = 0
    \/ cont = 1 /\ c1_control(b0, b1)
    \/ cont = 2 /\ b0 % 16 = 0 /\ (b1 \div 32) % 2 = 0
    \/ cont = 3 /\ b0 % 8 = 0 /\ (b1 \div 16) % 4 = 0
    \/ cont = 2 /\ b0 = 237 /\ b1 >= 160
    \/ cont = 3 /\ (b0 > 244 \/ (b0 = 244 /\ b1 >= 144))

\* The loop of _str_sanitize (str.c:548-630) with b at the C index i, n bytes
\* left and count replacements made.
RECURSIVE _str_sanitize_loop(_, _, _, _, _)
_str_sanitize_loop(str, i, n, replacement, count) ==
    IF ~(n > 0 /\ At(str, i) # 0) THEN SanRes(str, count)
    ELSE
      LET b0 == At(str, i)
          cont == _continuation_bytes(b0)
          replaced == _str_sanitize_loop(Put(str, i, replacement), i + 1, n - 1,
                                         replacement, count + 1)
      IN IF b0 < 32 THEN replaced
         ELSE IF cont = 0
         THEN _str_sanitize_loop(str, i + 1, n - 1, replacement, count)
         ELSE IF cont < 0 \/ n <= cont THEN replaced
         ELSE IF ~ContinuationsValid(str, i, 1, cont) THEN replaced
         ELSE IF SequenceRejected(b0, At(str, i + 1), cont) THEN replaced
         ELSE _str_sanitize_loop(str, i + cont + 1, n - cont - 1, replacement,
                                 count)

_str_sanitize(str, n, replacement) ==
    _str_sanitize_loop(str, 0, n, replacement, 0)

\* str_sanitize (str.c:639-642).
str_sanitize(str, n, replacement) == _str_sanitize(str, n, replacement)

\* The bytes of the strings sanitized: the C0 control LF, 'A', the
\* continuation bytes 0x80 and 0xA0, the leaders 0xC0 0xC2 0xE0 0xED 0xF0
\* 0xF4.
SanBytes == {10, 65, 128, 160, 192, 194, 224, 237, 240, 244}

\* The replacement bytes passed: '?' (U_SPECIAL, what str_cpy passes).
SanReplacements == {U_SPECIAL}

SanInit ==
    /\ \E content \in SeqsUpTo(SanBytes, MaxSan) : smem = Append(content, 0)
    /\ sn \in 0..(MaxSan + 1)
    /\ sn <= Len(smem)
    /\ srp \in SanReplacements
    /\ scalls = 0
    /\ sprev = <<>>
    /\ scount = 0

SanIdle ==
    /\ smem = <<>> /\ sn = 0 /\ srp = U_SPECIAL
    /\ scalls = 0 /\ sprev = <<>> /\ scount = 0

\* str_sanitize(smem, sn, srp), at most twice on the same buffer.
StrSanitize ==
    /\ scalls < 2
    /\ \E r \in {str_sanitize(smem, sn, srp)} :
          /\ smem' = r.str
          /\ scount' = r.count
    /\ sprev' = smem
    /\ scalls' = scalls + 1
    /\ UNCHANGED <<sn, srp, notSan>>

SanNext == StrSanitize

(***************************************************************************)
(* Bounded copy and append.  cdst is the destination memory, csize the     *)
(* size the caller declares for it and csrc the zero-terminated source.    *)
(* ccall records the call that has returned: the memory it was entered     *)
(* with (dst0) and the indices it wrote (writes).                          *)
(***************************************************************************)
\* _str_size (str.c:644-652): the bytes before the terminator.
RECURSIVE _str_size_loop(_, _)
_str_size_loop(str, size) ==
    IF At(str, size) # 0 THEN _str_size_loop(str, size + 1) ELSE size

_str_size(str) == _str_size_loop(str, 0)

\* _str_nsize (str.c:712-720): the bytes before the terminator, at most
\* max_size.
RECURSIVE _str_nsize_loop(_, _, _)
_str_nsize_loop(str, max_size, size) ==
    IF At(str, size) # 0 /\ size < max_size
    THEN _str_nsize_loop(str, max_size, size + 1)
    ELSE size

\* The size of the string taken as 0.
_str_nsize_empty(str, max_size) == 0

_str_nsize(str, max_size) == _str_nsize_loop(str, max_size, 0)

\* The result of a copy into memory: the memory and the index of the
\* terminator written.
CpyRes(mem, end) == [mem |-> mem, end |-> end]

\* _str_cpy (str.c:1148-1154) with dest at the index dest of mem and k bytes
\* of src copied.
RECURSIVE _str_cpy_loop(_, _, _, _)
_str_cpy_loop(mem, dest, src, k) ==
    IF At(src, k) # 0
    THEN _str_cpy_loop(Put(mem, dest, At(src, k)), dest + 1, src, k + 1)
    ELSE CpyRes(Put(mem, dest, 0), dest)

\* dest_top with the terminator's place not set aside.
dest_top_nospace(dest, size) == dest + size

\* str.c:1167: char *dest_top = dest + size - 1.
dest_top(dest, size) == dest + size - 1

\* The loop of _str_cpyn (str.c:1170-1173).
RECURSIVE _str_cpyn_loop(_, _, _, _, _)
_str_cpyn_loop(mem, dest, top, src, k) ==
    IF At(src, k) # 0 /\ dest < top
    THEN _str_cpyn_loop(Put(mem, dest, At(src, k)), dest + 1, top, src, k + 1)
    ELSE CpyRes(Put(mem, dest, 0), dest)

\* _str_cpyn (str.c:1157-1174) with dest at the index dest of mem.
_str_cpyn(mem, dest, size, src) ==
    IF size = 0 THEN CpyRes(mem, dest)
    ELSE IF size = STR_NO_LIMIT THEN _str_cpy_loop(mem, dest, src, 0)
    ELSE _str_cpyn_loop(mem, dest, dest_top(dest, size), src, 0)

\* The copy left as it is.
SanitizeCopy_skip(mem, dest, size) == mem

\* str.c:1200, 1253: _str_sanitize(dest, size, U_SPECIAL) with dest at the
\* index dest of mem.
SanitizeCopy(mem, dest, size) ==
    _str_sanitize_loop(mem, dest, size, U_SPECIAL, 0).str

\* The memory after a copy c to dest followed by its sanitizing, and the
\* indices written: those from dest to the terminator, and those where the
\* sanitizer put the replacement.
CopySanitized(c, dest, size) ==
    LET mem == SanitizeCopy(c.mem, dest, size)
    IN [mem |-> mem,
        writes |-> (dest..c.end)
                      \cup {i \in 0..(Len(mem) - 1) : At(mem, i) # At(c.mem, i)}]

\* str_cpy (str.c:1189-1201).
str_cpy(mem, size, src) == CopySanitized(_str_cpyn(mem, 0, size, src), 0, size)

\* str_append (str.c:1243-1255).
str_append(mem, size, src) ==
    LET dstr_size == _str_nsize(mem, size)
    IN IF dstr_size < size
       THEN CopySanitized(_str_cpyn(mem, dstr_size, size - dstr_size, src),
                          dstr_size, size - dstr_size)
       ELSE [mem |-> mem, writes |-> {}]

\* Bytes of the strings copied: 'A', the continuation byte 0xA0, the 2 byte
\* leader 0xC2 and the 3 byte leader 0xE0.
CpyBytes == {65, 160, 194, 224}

\* The memory behind the destination: room for the longest string an
\* unbounded append makes, every byte 0xAA after the string it holds.
MemLen == MaxOld + MaxSrc + 1

NoCopy == [op |-> "none", dst0 |-> <<>>, writes |-> {}]

CpyInit ==
    /\ \E old \in SeqsUpTo(CpyBytes, MaxOld) :
          cdst = [i \in 1..MemLen |->
                     IF i <= Len(old) THEN old[i]
                     ELSE IF i = Len(old) + 1 THEN 0 ELSE 170]
    /\ csize \in (1..MaxCap) \cup {STR_NO_LIMIT}
    /\ \E s \in SeqsUpTo(CpyBytes, MaxSrc) : csrc = Append(s, 0)
    /\ ccall = NoCopy

CpyIdle == cdst = <<>> /\ csize = 0 /\ csrc = <<>> /\ ccall = NoCopy

\* str_cpy(cdst, csize, csrc).
StrCpy ==
    /\ ccall.op = "none"
    /\ \E r \in {str_cpy(cdst, csize, csrc)} :
          /\ cdst' = r.mem
          /\ ccall' = [op |-> "str_cpy", dst0 |-> cdst, writes |-> r.writes]
    /\ UNCHANGED <<csize, csrc, notCpy>>

\* str_append(cdst, csize, csrc).
StrAppend ==
    /\ ccall.op = "none"
    /\ \E r \in {str_append(cdst, csize, csrc)} :
          /\ cdst' = r.mem
          /\ ccall' = [op |-> "str_append", dst0 |-> cdst, writes |-> r.writes]
    /\ UNCHANGED <<csize, csrc, notCpy>>

CpyNext == StrCpy \/ StrAppend

(***************************************************************************)
(* Comparison.  cmp1 and cmp2 are the zero-terminated strings compared,    *)
(* char_signed tells whether the build's plain char is signed (the source  *)
(* compares plain chars and the C implementation decides), and cmpres is   *)
(* the call that has returned: the function (op), its max_len and its      *)
(* return value (ret).                                                     *)
(***************************************************************************)
\* The value of the plain char holding the byte b.
CharValue(b, signed) == IF signed /\ b >= 128 THEN b - 256 ELSE b

\* str_cmp (str.c:919-934) with s1 and s2 advanced by i.
RECURSIVE str_cmp_loop(_, _, _, _)
str_cmp_loop(s1, s2, i, signed) ==
    IF At(s1, i) = At(s2, i) /\ At(s1, i) # 0
    THEN str_cmp_loop(s1, s2, i + 1, signed)
    ELSE IF At(s1, i) = At(s2, i) THEN 0
    ELSE IF CharValue(At(s1, i), signed) < CharValue(At(s2, i), signed)
         THEN -1 ELSE 1

str_cmp(s1, s2, signed) == str_cmp_loop(s1, s2, 0, signed)

\* str_decode (str.c:424-433): the value returned and the cursor.
str_decode(str, offset, size) ==
    LET r == _str_decode(str, offset, size, 0)
    IN [ch |-> str_decode_ret(r), offset |-> r.offset]

\* str_lcmp (str.c:958-989) with len characters compared.
RECURSIVE str_lcmp_loop(_, _, _, _, _, _)
str_lcmp_loop(s1, s2, max_len, off1, off2, len) ==
    IF len >= max_len THEN 0
    ELSE
      LET d1 == str_decode(s1, off1, STR_NO_LIMIT)
          d2 == str_decode(s2, off2, STR_NO_LIMIT)
      IN IF d1.ch < d2.ch THEN -1
         ELSE IF d1.ch > d2.ch THEN 1
         ELSE IF d1.ch = 0 \/ d2.ch = 0 THEN 0
         ELSE str_lcmp_loop(s1, s2, max_len, d1.offset, d2.offset, len + 1)

str_lcmp(s1, s2, max_len) == str_lcmp_loop(s1, s2, max_len, 0, 0, 0)

\* The UTF-8 string of the characters w, by chr_encode, zero-terminated.
RECURSIVE Utf8Put(_, _, _, _)
Utf8Put(w, i, mem, off) ==
    IF i > Len(w) THEN Append(Bytes(mem, 0, off), 0)
    ELSE LET r == chr_encode(w[i], mem, off, Len(mem))
         IN Utf8Put(w, i + 1, r.str, r.offset)

Utf8(w) == Utf8Put(w, 1, [i \in 1..(4 * Len(w) + 1) |-> 0], 0)

\* The characters of the strings compared: 'a', 'b', 'c' and U+00E9, the
\* last one two bytes long.
CmpScalars == {97, 98, 99, 233}

CmpStrings == {Utf8(w) : w \in SeqsUpTo(CmpScalars, MaxStr)}

NoCmp == [op |-> "none", max_len |-> 0, ret |-> 0]

CmpInit ==
    /\ cmp1 \in CmpStrings
    /\ cmp2 \in CmpStrings
    /\ char_signed \in BOOLEAN
    /\ cmpres = NoCmp

CmpIdle == cmp1 = <<>> /\ cmp2 = <<>> /\ char_signed = FALSE /\ cmpres = NoCmp

\* str_cmp(cmp1, cmp2).
StrCmp ==
    /\ cmpres.op = "none"
    /\ cmpres' = [op |-> "str_cmp", max_len |-> 0,
                  ret |-> str_cmp(cmp1, cmp2, char_signed)]
    /\ UNCHANGED <<cmp1, cmp2, char_signed, notCmp>>

\* str_lcmp(cmp1, cmp2, max_len).
StrLcmp(max_len) ==
    /\ cmpres.op = "none"
    /\ cmpres' = [op |-> "str_lcmp", max_len |-> max_len,
                  ret |-> str_lcmp(cmp1, cmp2, max_len)]
    /\ UNCHANGED <<cmp1, cmp2, char_signed, notCmp>>

CmpNext ==
    \/ StrCmp
    \/ \E max_len \in (0..MaxStr) \cup {STR_NO_LIMIT} : StrLcmp(max_len)

(***************************************************************************)
(* The tokenizer.  tbuf is the buffer (tbuf0: as it was before the first   *)
(* call), tdelim the string of delimiters, ts the pointer passed to the    *)
(* next call, as an index of tbuf: the continuation pointer of the call    *)
(* before.  ttoks holds the pointers returned so far and tdone tells that  *)
(* the last call returned NULL.                                            *)
(***************************************************************************)
\* ascii_check (str.c:880-886).
ascii_check(ch) == ch <= 127

\* _strchr (str.c:1552-1558) from the index i of str: the index of the
\* first byte c, or NULL.
RECURSIVE _strchr(_, _, _)
_strchr(str, i, c) ==
    IF At(str, i) # 0 /\ At(str, i) # c THEN _strchr(str, i + 1, c)
    ELSE IF At(str, i) = c THEN i ELSE NULL

\* _test_prefix (str.c:1095-1103) with s at the index i of str and p at the
\* index j of pstr.
RECURSIVE _test_prefix(_, _, _, _)
_test_prefix(str, i, pstr, j) ==
    IF At(str, i) = At(pstr, j) /\ At(str, i) # 0
    THEN _test_prefix(str, i + 1, pstr, j + 1)
    ELSE At(pstr, j) = 0

\* The loop of str_chr (str.c:1583-1592) from the index i of str.
RECURSIVE str_chr_loop(_, _, _)
str_chr_loop(str, i, utf8) ==
    IF At(str, i) = 0 THEN NULL
    ELSE LET f == _strchr(str, i, At(utf8, 0))
         IN IF f = NULL THEN NULL
            ELSE IF _test_prefix(str, f, utf8, 0) THEN f
            ELSE str_chr_loop(str, f + 1, utf8)

\* str_chr (str.c:1567-1595): the index of ch in str, or NULL.
str_chr(str, ch) ==
    IF ascii_check(ch) THEN _strchr(str, 0, ch)
    ELSE LET r == chr_encode(ch, <<0, 0, 0, 0, 0>>, 0, 5)
         IN IF r.rc # EOK \/ r.offset = 0 THEN NULL
            ELSE str_chr_loop(str, 0, Put(r.str, r.offset, 0))

\* The two loops of str_tok (str.c:1896-1897, 1902-1903): decode from tmp
\* while the character is (delims = TRUE) or is not (FALSE) a delimiter;
\* the result is cur, tmp and ch when the loop ends.
RECURSIVE str_tok_loop(_, _, _, _, _, _)
str_tok_loop(s, len, delim, delims, tmp, cur) ==
    LET d == str_decode(s, tmp, len)
    IN IF d.ch # 0 /\ ((str_chr(delim, d.ch) # NULL) = delims)
       THEN str_tok_loop(s, len, delim, delims, d.offset, d.offset)
       ELSE [cur |-> cur, tmp |-> d.offset, ch |-> d.ch]

\* The continuation pointer left at the end of the token.
str_tok_next_atend(ch, tmp, cur) == cur

\* str.c:1906: *next = (ch ? &s[tmp] : &s[cur]).
str_tok_next(ch, tmp, cur) == IF ch # 0 THEN tmp ELSE cur

\* str_tok (str.c:1883-1915) with s the index in mem the string starts at:
\* the pointer returned (ret), *next and the memory, all as indices of mem.
str_tok(mem, s0, delim) ==
    IF s0 = NULL THEN [ret |-> NULL, next |-> NULL, mem |-> mem]
    ELSE
      LET s == Bytes(mem, s0, Len(mem))
          len == _str_size(s)
          a == str_tok_loop(s, len, delim, TRUE, 0, 0)
          start == a.cur
          b == str_tok_loop(s, len, delim, FALSE, a.cur, a.cur)
          end == b.cur
          next == s0 + str_tok_next(b.ch, b.tmp, b.cur)
      IN IF start = end THEN [ret |-> NULL, next |-> next, mem |-> mem]
         ELSE [ret |-> s0 + start, next |-> next, mem |-> Put(mem, s0 + end, 0)]

\* The characters of the strings tokenized: space, comma, 'a', 'b' and
\* U+00A0, two bytes long.
TokScalars == {32, 44, 97, 98, 160}

\* The delimiter strings: " ," and "," with U+00A0.
TokDelims == {Utf8(<<32, 44>>), Utf8(<<44, 160>>)}

\* The strings tokenized: every string of up to MaxTok of the characters,
\* and "  a,b ".
TokStrings ==
    {Utf8(w) : w \in SeqsUpTo(TokScalars, MaxTok) \cup {<<32, 32, 97, 44, 98, 32>>}}

TokInit ==
    /\ tbuf \in TokStrings
    /\ tbuf0 = tbuf
    /\ tdelim \in TokDelims
    /\ ts = 0
    /\ ttoks = <<>>
    /\ tdone = FALSE

TokIdle ==
    /\ tbuf = <<>> /\ tbuf0 = <<>> /\ tdelim = <<>>
    /\ ts = 0 /\ ttoks = <<>> /\ tdone = TRUE

\* str_tok(ts, tdelim, &ts): one more call, with the continuation pointer
\* of the call before, until a call returns NULL.
StrTok ==
    /\ ~tdone
    /\ \E r \in {str_tok(tbuf, ts, tdelim)} :
          /\ tbuf' = r.mem
          /\ ts' = r.next
          /\ ttoks' = IF r.ret = NULL THEN ttoks ELSE Append(ttoks, r.ret)
          /\ tdone' = (r.ret = NULL)
    /\ UNCHANGED <<tbuf0, tdelim, notTok>>

TokNext == StrTok

(***************************************************************************)
(* Size with a length limit.  lstr is the zero-terminated string, lmax the *)
(* max_len passed and lres the call that has returned (ret: its value).    *)
(***************************************************************************)
\* The loop of str_lsize (str.c:702-707) with len characters counted and
\* the cursor at offset; the result is the offset returned (str.c:709).
RECURSIVE str_lsize_loop(_, _, _, _)
str_lsize_loop(str, max_len, len, offset) ==
    IF len < max_len
    THEN LET d == str_decode(str, offset, STR_NO_LIMIT)
         IN IF d.ch = 0 THEN d.offset
            ELSE str_lsize_loop(str, max_len, len + 1, d.offset)
    ELSE offset

\* str_lsize (str.c:697-710).
str_lsize(str, max_len) == str_lsize_loop(str, max_len, 0, 0)

\* The characters of the strings measured: 'a', U+00E9 (2 bytes) and U+20AC
\* (3 bytes).
LszScalars == {97, 233, 8364}

NoLsz == [op |-> "none", ret |-> 0]

LszInit ==
    /\ \E w \in SeqsUpTo(LszScalars, MaxStr) : lstr = Utf8(w)
    /\ lmax \in 0..(MaxStr + 1)
    /\ lres = NoLsz

LszIdle == lstr = <<>> /\ lmax = 0 /\ lres = NoLsz

\* str_lsize(lstr, lmax).
StrLsize ==
    /\ lres.op = "none"
    /\ lres' = [op |-> "str_lsize", ret |-> str_lsize(lstr, lmax)]
    /\ UNCHANGED <<lstr, lmax, notLsz>>

LszNext == StrLsize

(***************************************************************************)
(* Right-trim.  rstr is the memory of the string: the string, its          *)
(* terminator and one byte more (0xAA); rch is the character to remove and *)
(* rres the call that has returned, with the memory it was entered with    *)
(* (str0).                                                                 *)
(***************************************************************************)
\* The loop of _str_rtrim (str.c:1624-1629) with str at the index i and last
\* at the index last.
RECURSIVE _str_rtrim_loop(_, _, _, _)
_str_rtrim_loop(str, c, i, last) ==
    IF At(str, i) # 0
    THEN _str_rtrim_loop(str, c, i + 1, IF At(str, i) # c THEN i ELSE last)
    ELSE last

\* _str_rtrim (str.c:1620-1633): last[1] = 0.
_str_rtrim(str, c) == Put(str, _str_rtrim_loop(str, c, 0, 0) + 1, 0)

\* The loop of str_rtrim (str.c:1654-1663); the result is last_chunk, an
\* index or NULL.
RECURSIVE str_rtrim_loop(_, _, _, _, _, _)
str_rtrim_loop(str, ch, off, pos, update_last_chunk, last_chunk) ==
    LET d == str_decode(str, off, STR_NO_LIMIT)
    IN IF d.ch = 0 THEN last_chunk
       ELSE IF d.ch # ch
            THEN str_rtrim_loop(str, ch, d.offset, d.offset, TRUE, NULL)
       ELSE IF update_last_chunk
            THEN str_rtrim_loop(str, ch, d.offset, d.offset, FALSE, pos)
       ELSE str_rtrim_loop(str, ch, d.offset, d.offset, update_last_chunk,
                           last_chunk)

\* str_rtrim (str.c:1640-1667).
str_rtrim(str, ch) ==
    IF ascii_check(ch) THEN _str_rtrim(str, ch)
    ELSE LET last_chunk == str_rtrim_loop(str, ch, 0, 0, TRUE, NULL)
         IN IF last_chunk # NULL THEN Put(str, last_chunk, 0) ELSE str

\* The characters of the strings trimmed, and the characters removed: 'a'
\* and U+00E9; 'b' is only in the strings.
TrimScalars == {97, 98, 233}
TrimChars == {97, 233}

NoTrim == [op |-> "none", str0 |-> <<>>]

TrimInit ==
    /\ \E w \in SeqsUpTo(TrimScalars, MaxStr) : rstr = Append(Utf8(w), 170)
    /\ rch \in TrimChars
    /\ rres = NoTrim

TrimIdle == rstr = <<>> /\ rch = 0 /\ rres = NoTrim

\* str_rtrim(rstr, rch).
StrRtrim ==
    /\ rres.op = "none"
    /\ rstr' = str_rtrim(rstr, rch)
    /\ rres' = [op |-> "str_rtrim", str0 |-> rstr]
    /\ UNCHANGED <<rch, notTrim>>

TrimNext == StrRtrim

(***************************************************************************)
(* UTF-8 to UTF-16.  udest is the memory of the destination, 16-bit units, *)
(* one unit longer than the largest dlen and filled with 0xAAAA; udlen is  *)
(* dlen, usrc the source string and ures the call that has returned: its   *)
(* return value and the final idx.                                         *)
(***************************************************************************)
MaxUnits == 5

U16Res(rc, dest, idx) == [rc |-> rc, dest |-> dest, idx |-> idx]

\* The test of str.c:1409 that sends a scalar to the surrogate-pair branch.
NeedsPair(c) == c > 65536

\* The loop of str_to_utf16 (str.c:1408-1427).
RECURSIVE str_to_utf16_loop(_, _, _, _, _)
str_to_utf16_loop(dest, dlen, src, offset, idx) ==
    LET d == str_decode(src, offset, STR_NO_LIMIT)
        c == d.ch
    IN IF c = 0 THEN U16Res(EOK, dest, idx)
       ELSE IF NeedsPair(c) /\ idx + 2 >= dlen - 1
            THEN U16Res(EOVERFLOW, dest, idx)
       ELSE
         LET c2 == c - 65536
             dest2 == IF NeedsPair(c)
                      THEN Put(Put(dest, idx, U16(55296 + (c2 \div 1024))),
                               idx + 1, U16(56320 + (c2 % 1024)))
                      ELSE Put(dest, idx, U16(c))
             idx2 == IF NeedsPair(c) THEN idx + 2 ELSE idx + 1
         IN IF idx2 >= dlen - 1 THEN U16Res(EOVERFLOW, dest2, idx2)
            ELSE str_to_utf16_loop(dest2, dlen, src, d.offset, idx2)

\* str_to_utf16 (str.c:1399-1431): dest[idx] = '\0' after the loop.
str_to_utf16(dest, dlen, src) ==
    LET r == str_to_utf16_loop(dest, dlen, src, 0, 0)
    IN U16Res(r.rc, Put(r.dest, r.idx, 0), r.idx)

\* The characters of the sources: 'a', U+20AC, U+10000, U+10001 and
\* U+10FFFF.
U16Scalars == {97, 8364, 65536, 65537, 1114111}

NoU16 == [op |-> "none", rc |-> EOK, idx |-> 0]

U16Init ==
    /\ udest = [i \in 1..(MaxUnits + 1) |-> 43690]
    /\ udlen \in 1..MaxUnits
    /\ \E w \in SeqsUpTo(U16Scalars, MaxStr) : usrc = Utf8(w)
    /\ ures = NoU16

U16Idle == udest = <<>> /\ udlen = 0 /\ usrc = <<>> /\ ures = NoU16

\* str_to_utf16(udest, udlen, usrc).
StrToUtf16 ==
    /\ ures.op = "none"
    /\ \E r \in {str_to_utf16(udest, udlen, usrc)} :
          /\ udest' = r.dest
          /\ ures' = [op |-> "str_to_utf16", rc |-> r.rc, idx |-> r.idx]
    /\ UNCHANGED <<udlen, usrc, notU16>>

U16Next == StrToUtf16

(***************************************************************************)
(* Wide string and UTF-16 to UTF-8.  xdest is the destination buffer of    *)
(* xsize bytes, filled with 0xAA; xsrc is the source, 32-bit values or     *)
(* 16-bit units with the terminating zero; xres is the call that has       *)
(* returned and its return value.                                          *)
(***************************************************************************)
MaxSize == 5

ConvRes(rc, dest, dest_off) == [rc |-> rc, dest |-> dest, dest_off |-> dest_off]

\* The loop of wstr_to_str (str.c:1337-1340).
RECURSIVE wstr_to_str_loop(_, _, _, _, _)
wstr_to_str_loop(dest, size, src, src_idx, dest_off) ==
    LET ch == At(src, src_idx)
    IN IF ch = 0 THEN ConvRes(EOK, dest, dest_off)
       ELSE LET r == chr_encode(ch, dest, dest_off, size - 1)
            IN IF r.rc # EOK THEN ConvRes(r.rc, r.str, r.offset)
               ELSE wstr_to_str_loop(r.str, size, src, src_idx + 1, r.offset)

\* wstr_to_str (str.c:1325-1343); it returns nothing, rc is kept for the
\* model only.
wstr_to_str(dest, size, src) ==
    LET r == wstr_to_str_loop(dest, size, src, 0, 0)
    IN ConvRes(r.rc, Put(r.dest, r.dest_off, 0), r.dest_off)

\* (u & 0xfc00) == 0xd800 and (u & 0xfc00) == 0xdc00 (str.c:1367-1368).
IsHighSurrogate_anysurrogate(u) == u - (u % 2048) = 55296

IsHighSurrogate(u) == u - (u % 1024) = 55296

IsLowSurrogate(u) == u - (u % 1024) = 56320

\* The loop of utf16_to_str (str.c:1366-1382) with rc the value of the last
\* chr_encode.
RECURSIVE utf16_to_str_loop(_, _, _, _, _, _)
utf16_to_str_loop(dest, size, src, idx, dest_off, rc) ==
    IF At(src, idx) = 0 THEN ConvRes(rc, dest, dest_off)
    ELSE IF IsHighSurrogate(At(src, idx))
            /\ ~(At(src, idx + 1) # 0 /\ IsLowSurrogate(At(src, idx + 1)))
         THEN ConvRes(rc, dest, dest_off)
    ELSE
      LET pair == IsHighSurrogate(At(src, idx))
          ch == IF pair
                THEN 65536 + ((At(src, idx) % 1024) * 1024)
                           + (At(src, idx + 1) % 1024)
                ELSE At(src, idx)
          r == chr_encode(ch, dest, dest_off, size - 1)
      IN IF r.rc # EOK THEN ConvRes(r.rc, r.str, r.offset)
         ELSE utf16_to_str_loop(r.str, size, src,
                                IF pair THEN idx + 2 ELSE idx + 1,
                                r.offset, r.rc)

\* utf16_to_str (str.c:1357-1385).
utf16_to_str(dest, size, src) ==
    LET r == utf16_to_str_loop(dest, size, src, 0, 0, EOK)
    IN ConvRes(r.rc, Put(r.dest, r.dest_off, 0), r.dest_off)

\* The values of the sources: 'A', U+20AC, a high and a low surrogate,
\* U+10400 and 0x110000; the last two are no uint16_t.
ConvValues == {65, 8364, 55296, 56320, 66560, 1114112}

NoConv == [op |-> "none", rc |-> EOK]

ConvInit ==
    /\ xsize \in 1..MaxSize
    /\ xdest = [i \in 1..xsize |-> 170]
    /\ \E w \in SeqsUpTo(ConvValues, MaxStr) : xsrc = Append(w, 0)
    /\ xres = NoConv

ConvIdle == xdest = <<>> /\ xsize = 0 /\ xsrc = <<>> /\ xres = NoConv

\* wstr_to_str(xdest, xsize, xsrc).
WstrToStr ==
    /\ xres.op = "none"
    /\ \E r \in {wstr_to_str(xdest, xsize, xsrc)} :
          /\ xdest' = r.dest
          /\ xres' = [op |-> "wstr_to_str", rc |-> r.rc]
    /\ UNCHANGED <<xsize, xsrc, notConv>>

\* utf16_to_str(xdest, xsize, xsrc), the source being uint16_t units.
Utf16ToStr ==
    /\ xres.op = "none"
    /\ \A i \in 1..Len(xsrc) : xsrc[i] < 65536
    /\ \E r \in {utf16_to_str(xdest, xsize, xsrc)} :
          /\ xdest' = r.dest
          /\ xres' = [op |-> "utf16_to_str", rc |-> r.rc]
    /\ UNCHANGED <<xsize, xsrc, notConv>>

ConvNext == WstrToStr \/ Utf16ToStr

(***************************************************************************)
(* str_ncpy.  ndst is the memory behind the destination (0xAA everywhere,  *)
(* and a zero in the last byte, far behind every buffer), nsize the size   *)
(* passed, nsrc the memory of the source (it need not hold a zero), nn the *)
(* n passed, ndebug tells whether the build compiles assert() out, and     *)
(* ncall is the call made: the function (op, "abort" if an assertion has   *)
(* stopped the program), the memory before it (dst0) and the indices of    *)
(* nsrc that were read (reads).                                            *)
(***************************************************************************)
\* n + 1 in size_t, STR_NO_LIMIT being its largest value.
SizeSucc(n) == IF n = STR_NO_LIMIT THEN 0 ELSE n + 1

\* min(a, b).
min(a, b) == IF a < b THEN a ELSE b

\* The indices of src that the loops of _str_cpy and _str_cpyn
\* (str.c:1150-1151, 1170-1171) read: *src is tested first, then
\* dest < dest_top.
RECURSIVE _str_cpyn_reads(_, _, _, _)
_str_cpyn_reads(dest, top, src, k) ==
    IF At(src, k) # 0 /\ dest < top
    THEN {k} \cup _str_cpyn_reads(dest + 1, top, src, k + 1)
    ELSE {k}

\* The result of str_ncpy: the memory, the indices of src read and whether
\* the assertion of str.c:1159 has failed.
NcpyRes(mem, reads, failed) == [mem |-> mem, reads |-> reads, failed |-> failed]

\* str_ncpy (str.c:1219-1230).  With size 0, _str_cpyn fails its assertion
\* or, assert() compiled out, returns at once (str.c:1159-1162).
str_ncpy(mem, size, src, n, no_assert) ==
    LET size2 == min(size, SizeSucc(n))
    IN IF size2 = 0 /\ ~no_assert THEN NcpyRes(mem, {}, TRUE)
       ELSE NcpyRes(SanitizeCopy(_str_cpyn(mem, 0, size2, src).mem, 0, size),
                    IF size2 = 0 THEN {}
                    ELSE _str_cpyn_reads(0, IF size2 = STR_NO_LIMIT
                                            THEN STR_NO_LIMIT
                                            ELSE dest_top(0, size2), src, 0),
                    FALSE)

\* Bytes of the sources: the terminator, 'A', the continuation byte 0xA0
\* and the 2 byte leader 0xC2.
NcpyBytes == {0, 65, 160, 194}

NoNcpy == [op |-> "none", dst0 |-> <<>>, reads |-> {}]

NcpyInit ==
    /\ ndst = [i \in 1..MemLen |-> IF i = MemLen THEN 0 ELSE 170]
    /\ nsize \in (1..MaxCap) \cup {STR_NO_LIMIT}
    /\ nsrc \in [1..(MaxSrc + 1) -> NcpyBytes]
    /\ nn \in (0..MaxSrc) \cup {STR_NO_LIMIT}
    /\ ndebug \in BOOLEAN
    /\ ncall = NoNcpy

NcpyIdle ==
    /\ ndst = <<>> /\ nsize = 0 /\ nsrc = <<>> /\ nn = 0 /\ ndebug = FALSE
    /\ ncall = NoNcpy

\* str_ncpy(ndst, nsize, nsrc, nn).
StrNcpy ==
    /\ ncall.op = "none"
    /\ \E r \in {str_ncpy(ndst, nsize, nsrc, nn, ndebug)} :
          /\ ndst' = r.mem
          /\ ncall' = [op |-> IF r.failed THEN "abort" ELSE "str_ncpy",
                       dst0 |-> ndst, reads |-> r.reads]
    /\ UNCHANGED <<nsize, nsrc, nn, ndebug, notNcpy>>

NcpyNext == StrNcpy

(***************************************************************************)
(* mbrtoc32 without a state, called from two fibrils (hosted build).       *)
(* fin[f] is the input of the fibril f, which it passes one byte per call; *)
(* fpos[f] is the number of calls f has made; gstate[i] is the instance i  *)
(* of the fibril-local global_state; fres[f] is the sequence of results f  *)
(* has got: the return value (wret) and the character stored (c, NULL if   *)
(* none was).  Fibrils are switched between calls only.                    *)
(***************************************************************************)
MaxFib == 3

Fibrils == {1, 2}

\* One instance for every fibril.
global_state_shared(f) == 1

\* str.c:379: static fibril_local mbstate_t global_state: the instance that
\* the fibril f names.
global_state(f) == f

\* mbrtoc32(&c, s, 1, NULL) with s holding the byte b and the default state
\* being state (str.c:378-406): the result and the state left.
mbrtoc32_default(b, state) ==
    LET r == _str_decode(<<b>>, 0, 1, state)
    IN [state |-> r.state,
        res |-> [wret |-> mbrtoc32_ret(r),
                 c |-> IF r.ret # CHAR_INVALID /\ r.state = 0 THEN r.ret
                       ELSE NULL]]

\* The bytes the fibrils pass: 'A', the continuation byte 0xA0 and the
\* 2 byte leader 0xC2.
FibBytes == {65, 160, 194}

FibInit ==
    /\ fin \in [Fibrils -> [1..MaxFib -> FibBytes]]
    /\ fpos = [f \in Fibrils |-> 0]
    /\ gstate = [f \in Fibrils |-> 0]
    /\ fres = [f \in Fibrils |-> <<>>]

FibIdle ==
    /\ fin = <<>> /\ fpos = <<>> /\ gstate = <<>> /\ fres = <<>>

\* The fibril f calls mbrtoc32(&c, s, 1, NULL) with its next byte.
FibrilCall(f) ==
    /\ fpos[f] < Len(fin[f])
    /\ \E r \in {mbrtoc32_default(fin[f][fpos[f] + 1], gstate[global_state(f)])} :
          /\ gstate' = [gstate EXCEPT ![global_state(f)] = r.state]
          /\ fres' = [fres EXCEPT ![f] = Append(@, r.res)]
    /\ fpos' = [fpos EXCEPT ![f] = @ + 1]
    /\ UNCHANGED <<fin, notFib>>

FibNext == \E f \in Fibrils : FibrilCall(f)

(***************************************************************************)
(* Metrics.  A caller measures the zero-terminated string mstr with        *)
(* str_length, then str_nlength (with the size msize), then str_width.     *)
(* mfn is the function that is running ("done" after the last one), moff   *)
(* its offset, mcount its len or width so far, and mret the values the     *)
(* functions have returned (NULL before the return).  A step is one turn   *)
(* of the function's loop, its last turn being the return.                 *)
(***************************************************************************)
\* chr_width with two columns for everything but ASCII.
chr_width_columns(ch) == IF ch < 128 THEN 1 ELSE 2

\* chr_width (str.c:853-856).
chr_width(ch) == 1

\* One turn of a loop around str_decode(mstr, &offset, size) that adds add
\* for a character and returns as fn at the end, next being the function
\* the caller goes on with.
MetricTurn(fn, size, next) ==
    /\ mfn = fn
    /\ \E d \in {str_decode(mstr, moff, size)} :
          IF d.ch # 0
          THEN /\ moff' = d.offset
               /\ mcount' = mcount + (IF fn = "str_width" THEN chr_width(d.ch)
                                      ELSE 1)
               /\ UNCHANGED <<mfn, mret>>
          ELSE /\ mret' = [mret EXCEPT ![fn] = mcount]
               /\ mfn' = next
               /\ moff' = 0
               /\ mcount' = 0
    /\ UNCHANGED <<mstr, msize, notMet>>

\* The bytes of the strings measured: 'A', the continuation bytes 0x80 and
\* 0xA0 and the leaders 0xC2, 0xE0 and 0xF0.
MetBytes == {65, 128, 160, 194, 224, 240}

MetInit ==
    /\ \E content \in SeqsUpTo(MetBytes, MaxSan) : mstr = Append(content, 0)
    /\ msize \in 0..Len(mstr)
    /\ mfn = "str_length"
    /\ moff = 0
    /\ mcount = 0
    /\ mret = [fn \in {"str_length", "str_nlength", "str_width"} |-> NULL]

MetIdle ==
    /\ mstr = <<>> /\ msize = 0 /\ mfn = "done" /\ moff = 0 /\ mcount = 0
    /\ mret = <<>>

\* A turn of the loop of str_length (str.c:779-788).
StrLengthTurn == MetricTurn("str_length", STR_NO_LIMIT, "str_nlength")

\* A turn of the loop of str_nlength (str.c:815-824).
StrNlengthTurn == MetricTurn("str_nlength", msize, "str_width")

\* A turn of the loop of str_width (str.c:863-873).
StrWidthTurn == MetricTurn("str_width", STR_NO_LIMIT, "done")

MetNext == StrLengthTurn \/ StrNlengthTurn \/ StrWidthTurn

(***************************************************************************)
(* Reverse decoding.  A caller walks the zero-terminated string vstr back  *)
(* from its end with str_decode_reverse until the call returns 0.  voff is *)
(* its offset, vout the characters returned so far, vlast the offset the   *)
(* last call was entered with and what it returned (NULL, NULL before the  *)
(* first call).                                                            *)
(***************************************************************************)
\* The leader is taken whatever number of continuation bytes it declares.
CountMatches_any(cbytes, b) == TRUE

\* str.c:473: cbytes != _continuation_bytes(b) rejects.
CountMatches(cbytes, b) == cbytes = _continuation_bytes(b)

\* The loop of str_decode_reverse (str.c:464-482).
RECURSIVE str_decode_reverse_loop(_, _, _, _)
str_decode_reverse_loop(str, offset, size, cbytes) ==
    IF ~(offset > 0 /\ cbytes < 4) THEN [ch |-> U_SPECIAL, offset |-> offset]
    ELSE
      LET b == At(str, offset - 1)
      IN IF _is_continuation(b)
         THEN str_decode_reverse_loop(str, offset - 1, size, cbytes + 1)
         ELSE IF ~CountMatches(cbytes, b)
         THEN [ch |-> U_SPECIAL, offset |-> offset - 1]
         ELSE [ch |-> str_decode(str, offset - 1, size).ch,
               offset |-> offset - 1]

\* str_decode_reverse (str.c:457-483).
str_decode_reverse(str, offset, size) ==
    IF offset = 0 THEN [ch |-> 0, offset |-> 0]
    ELSE str_decode_reverse_loop(str, offset, size, 0)

\* The characters of the well-formed strings walked: 'a', U+00E9, U+20AC
\* and U+10400; the bytes of the other strings: 'A', the continuation byte
\* 0xA0 and the leaders 0xC2 and 0xE0.
RevScalars == {97, 233, 8364, 66560}
RevBytes == {65, 160, 194, 224}

NoRev == [off0 |-> NULL, ret |-> NULL]

RevInit ==
    /\ \/ \E w \in SeqsUpTo(RevScalars, MaxStr) : vstr = Utf8(w)
       \/ \E q \in SeqsUpTo(RevBytes, MaxLen) : vstr = Append(q, 0)
    /\ voff = _str_size(vstr)
    /\ vout = <<>>
    /\ vlast = NoRev

RevIdle == vstr = <<>> /\ voff = 0 /\ vout = <<>> /\ vlast = NoRev

\* str_decode_reverse(vstr, &voff, str_size(vstr)).
StrDecodeReverse ==
    /\ vlast.ret # 0
    /\ \E r \in {str_decode_reverse(vstr, voff, _str_size(vstr))} :
          /\ voff' = r.offset
          /\ vout' = IF r.ch # 0 THEN Append(vout, r.ch) ELSE vout
          /\ vlast' = [off0 |-> voff, ret |-> r.ch]
    /\ UNCHANGED <<vstr, notRev>>

RevNext == StrDecodeReverse

(***************************************************************************)
(* Specifications: one per part, the other parts idle.                     *)
(***************************************************************************)
\* Every part but the part p is idle.
OthersIdle(p) ==
    /\ IF p = "dec" THEN TRUE ELSE DecIdle
    /\ IF p = "stream" THEN TRUE ELSE StreamIdle
    /\ IF p = "enc" THEN TRUE ELSE EncIdle
    /\ IF p = "san" THEN TRUE ELSE SanIdle
    /\ IF p = "cpy" THEN TRUE ELSE CpyIdle
    /\ IF p = "cmp" THEN TRUE ELSE CmpIdle
    /\ IF p = "tok" THEN TRUE ELSE TokIdle
    /\ IF p = "lsz" THEN TRUE ELSE LszIdle
    /\ IF p = "trim" THEN TRUE ELSE TrimIdle
    /\ IF p = "u16" THEN TRUE ELSE U16Idle
    /\ IF p = "conv" THEN TRUE ELSE ConvIdle
    /\ IF p = "ncpy" THEN TRUE ELSE NcpyIdle
    /\ IF p = "fib" THEN TRUE ELSE FibIdle
    /\ IF p = "met" THEN TRUE ELSE MetIdle
    /\ IF p = "rev" THEN TRUE ELSE RevIdle

InitDec == DecInit /\ OthersIdle("dec")

SpecDec == InitDec /\ [][DecNext]_vars

InitStream == StreamInit /\ OthersIdle("stream")

InitEnc == EncInit /\ OthersIdle("enc")

SpecEnc == InitEnc /\ [][EncNext]_vars

InitSan == SanInit /\ OthersIdle("san")

SpecSan == InitSan /\ [][SanNext]_vars

InitCpy == CpyInit /\ OthersIdle("cpy")

SpecCpy == InitCpy /\ [][CpyNext]_vars

InitCmp == CmpInit /\ OthersIdle("cmp")

SpecCmp == InitCmp /\ [][CmpNext]_vars

InitTok == TokInit /\ OthersIdle("tok")

SpecTok == InitTok /\ [][TokNext]_vars

InitLsz == LszInit /\ OthersIdle("lsz")

SpecLsz == InitLsz /\ [][LszNext]_vars

InitTrim == TrimInit /\ OthersIdle("trim")

SpecTrim == InitTrim /\ [][TrimNext]_vars

InitU16 == U16Init /\ OthersIdle("u16")

SpecU16 == InitU16 /\ [][U16Next]_vars

InitConv == ConvInit /\ OthersIdle("conv")

SpecConv == InitConv /\ [][ConvNext]_vars

SpecStream == InitStream /\ [][StreamNext]_vars

InitNcpy == NcpyInit /\ OthersIdle("ncpy")

SpecNcpy == InitNcpy /\ [][NcpyNext]_vars

InitFib == FibInit /\ OthersIdle("fib")

SpecFib == InitFib /\ [][FibNext]_vars

InitMet == MetInit /\ OthersIdle("met")

SpecMet == InitMet /\ [][MetNext]_vars

InitRev == RevInit /\ OthersIdle("rev")

SpecRev == InitRev /\ [][RevNext]_vars

(***************************************************************************)
(* Claims.                                                                 *)
(***************************************************************************)
\* A decoder call has returned.
Called == call.op # "none"

\* The bytes the call consumed, and the bytes of the sequence it worked on
\* that it could see: those consumed by earlier calls and those below its
\* limit.
Consumed == Bytes(inp, call.off0, call.offset)
Seen == call.pend0 \o Bytes(inp, call.off0, call.size)

\* The call produced a scalar (NUL included): not INVALID, nothing pending,
\* bytes consumed.
ReturnedScalar ==
    Called /\ call.ret # CHAR_INVALID /\ call.state = 0 /\ call.offset > call.off0

\* q starts with an over-long encoding: a leader 0xC0 or 0xC1, 0xE0 followed
\* by 0x80..0x9F, 0xF0 followed by 0x80..0x8F.
OverLong(q) ==
    /\ Len(q) >= 1
    /\ \/ q[1] \in {192, 193}
       \/ Len(q) >= 2 /\ q[1] = 224 /\ q[2] \in 128..159
       \/ Len(q) >= 2 /\ q[1] = 240 /\ q[2] \in 128..143

\* q starts with the 3 byte encoding of a surrogate: 0xED, then a byte >= 0xA0.
SurrogateEncoding(q) == Len(q) >= 2 /\ q[1] = 237 /\ q[2] >= 160

\* q starts with a complete 4 byte sequence that encodes a value >= 0x110000.
OutOfRangeEncoding(q) ==
    /\ Len(q) >= 4
    /\ q[1] \div 8 = 30
    /\ \A i \in 2..4 : q[i] \div 64 = 2
    /\ (q[1] % 8) * 262144 + (q[2] % 64) * 4096 + (q[3] % 64) * 64 + (q[4] % 64)
          >= 1114112

\* C3: strict profile under any chunking.  No call returns as a scalar a
\* value in 0xD800..0xDFFF or above 0x10FFFF, and a call that has a 3 byte
\* surrogate encoding or a 4 byte encoding of a value >= 0x110000 before it
\* returns INVALID.
C3_StrictProfile ==
    /\ ReturnedScalar => call.ret \notin 55296..57343 /\ call.ret <= 1114111
    /\ Called /\ SurrogateEncoding(Seen) => call.ret = CHAR_INVALID
    /\ Called /\ OutOfRangeEncoding(Seen) => call.ret = CHAR_INVALID

\* C4: non-shortest rejection.  A call that has an over-long encoding before
\* it (leader 0xC0 or 0xC1; 0xE0 then 0x80..0x9F; 0xF0 then 0x80..0x8F)
\* returns INVALID, whether the leader is in the same buffer or was consumed
\* by an earlier call, and no call returns a scalar for a sequence that
\* starts over-long.
C4_NonShortestRejected ==
    /\ Called /\ OverLong(Seen) => call.ret = CHAR_INVALID
    /\ ReturnedScalar => ~OverLong(call.pend0 \o Consumed)

\* The leader 0xF0 was consumed by an earlier call, this call met 0x80 and
\* returned INVALID.
C4_Witness ==
    /\ call.op = "mbrtoc32" /\ call.pend0 = <<240>>
    /\ call.size > 0 /\ inp[1] = 128
    /\ call.ret = CHAR_INVALID

\* C5: decoder state invariant.  After a call that returned a scalar or
\* INVALID the state is zero; the state is non-zero after a call only if the
\* call returned 0 with its cursor at the limit and one to three bytes of an
\* unfinished sequence consumed.  The caller's mbstate_t is the one the
\* stateful call left.
C5_StateInvariant ==
    Called =>
      /\ call.ret # 0 => call.state = 0
      /\ ReturnedScalar => call.state = 0
      /\ call.state # 0 =>
            /\ call.ret = 0
            /\ call.offset = call.size
            /\ Len(call.pend0 \o Consumed) \in 1..3
            /\ (call.pend0 \o Consumed)[1] >= 192
      /\ call.op = "mbrtoc32" => mb = call.state /\ (mb # 0 <=> pend # <<>>)

\* A call entered with a pending state met a byte it rejects: it returned
\* INVALID and the caller's state is clean again.
C5_Witness ==
    /\ call.op = "mbrtoc32" /\ call.mb0 # 0
    /\ call.ret = CHAR_INVALID /\ mb = 0

\* C6: end versus incomplete.  A call with its cursor at the limit and a
\* clean state returns 0, consumes nothing and leaves the state clean; with a
\* sequence pending it returns 0 and leaves the state as it was, non-zero.
\* mbrtoc32 returns UCHAR_INCOMPLETE in the second case (0 in the first), and
\* str_decode returns U_SPECIAL when the sequence it started is still
\* pending at the limit.
C6_EndVersusIncomplete ==
    Called =>
      /\ call.off0 = call.size /\ call.mb0 = 0 =>
            /\ call.ret = 0 /\ call.offset = call.off0 /\ call.state = 0
            /\ call.op = "mbrtoc32" => call.wret = 0
            /\ call.op = "str_decode" => call.wret = 0
      /\ call.off0 = call.size /\ call.mb0 # 0 =>
            /\ call.ret = 0 /\ call.offset = call.off0
            /\ call.state = call.mb0
            /\ call.op = "mbrtoc32" => call.wret = UCHAR_INCOMPLETE
      /\ call.op = "str_decode" /\ call.state # 0 => call.wret = U_SPECIAL

\* mbrtoc32 was called with no bytes while a sequence was pending.
C6_Witness ==
    /\ call.op = "mbrtoc32" /\ call.size = 0 /\ call.mb0 # 0
    /\ call.wret = UCHAR_INCOMPLETE /\ mb = call.mb0

\* C7: cursor bounds.  A call leaves the cursor at or after where it was and
\* at or before the limit, and reads only bytes from its cursor up to the
\* limit; str_decode called with its cursor before the limit moves it by at
\* least one byte.
C7_CursorBounds ==
    Called =>
      /\ call.off0 <= call.offset /\ call.offset <= call.size
      /\ call.reads \subseteq call.off0..(call.size - 1)
      /\ call.op = "str_decode" /\ call.off0 < call.size
            => call.offset >= call.off0 + 1

\* str_decode took the 3 byte fast path with the last continuation byte just
\* below the limit, from a cursor inside the buffer.
C7_Witness ==
    /\ call.op = "str_decode" /\ call.off0 > 0
    /\ call.ret > 2047
    /\ call.offset = call.off0 + 3 /\ call.offset = call.size
    /\ call.reads = call.off0..(call.size - 1)

StreamDone == woff = Len(sbuf) /\ boff = Len(sbuf)

\* C2: streaming equivalence.  Once both runs have reached the end of the
\* buffer, the run with the whole buffer as limit and the run fed one byte at
\* a time have produced the same sequence of scalars and INVALID markers.
C2_StreamingEquivalence == StreamDone => wout = bout

(***************************************************************************)
(* Claims about the encoder (SpecEnc).                                     *)
(***************************************************************************)
Encoded == ecall.op = "chr_encode"

\* A Unicode scalar value: at most 0x10FFFF and not a surrogate.
IsScalarValue(ch) == ch <= 1114111 /\ ~(ch \in 55296..57343)

\* The length of the UTF-8 encoding of ch.
EncodedLength(ch) ==
    IF ch < 128 THEN 1 ELSE IF ch < 2048 THEN 2 ELSE IF ch < 65536 THEN 3 ELSE 4

NothingWritten == dst = ecall.dst0 /\ ecall.writes = {} /\ eoff = ecall.off0

\* C1: chr_encode of a scalar value (0..0x10FFFF, no surrogate) into a
\* destination with at least 4 bytes of room returns EOK, and str_decode over
\* the bytes written returns that scalar and leaves the cursor at their end.
C1_RoundTrip ==
    (Encoded /\ IsScalarValue(ecall.ch) /\ ecall.off0 + 4 <= esize) =>
        /\ ecall.rc = EOK
        /\ eoff = ecall.off0 + EncodedLength(ecall.ch)
        /\ rt.op = "str_decode" => (rt.ret = ecall.ch /\ rt.offset = eoff)

\* The last code point went through chr_encode and str_decode and came back.
C1_Witness ==
    /\ Encoded /\ ecall.ch = 1114111 /\ ecall.off0 + 4 <= esize
    /\ rt.op = "str_decode" /\ rt.ret = 1114111 /\ rt.offset = ecall.off0 + 4

\* C8 as stated: for every scalar above 0x10FFFF chr_encode returns EINVAL,
\* writes no byte and leaves the cursor unchanged.
C8_RangeRejectedAlways ==
    (Encoded /\ ecall.ch > 1114111) =>
        (ecall.rc = EINVAL /\ NothingWritten)

\* C8 amended: for every scalar above 0x10FFFF chr_encode writes no byte and
\* leaves the cursor unchanged; it returns EINVAL when the cursor is below
\* size and EOVERFLOW when the cursor is at or beyond size.
C8_RangeRejected ==
    (Encoded /\ ecall.ch > 1114111) =>
        /\ NothingWritten
        /\ ecall.off0 < esize => ecall.rc = EINVAL
        /\ ecall.off0 >= esize => ecall.rc = EOVERFLOW

\* 0x110000 was refused with EINVAL with four bytes of room.
C8_Witness ==
    /\ Encoded /\ ecall.ch = 1114112 /\ ecall.off0 + 4 <= esize
    /\ ecall.rc = EINVAL /\ NothingWritten

\* C9: when the destination has no room for the whole encoding of a valid
\* scalar chr_encode returns EOVERFLOW, writes no byte and leaves the cursor
\* unchanged; the cursor moves only on EOK, by the encoded length (1 to 4);
\* nothing is written at or beyond index size.
C9_NoPartialWrites ==
    Encoded =>
        /\ (IsScalarValue(ecall.ch)
            /\ ecall.off0 + EncodedLength(ecall.ch) > esize) =>
               (ecall.rc = EOVERFLOW /\ NothingWritten)
        /\ ecall.rc # EOK => NothingWritten
        /\ ecall.rc = EOK =>
               /\ eoff = ecall.off0 + EncodedLength(ecall.ch)
               /\ eoff - ecall.off0 \in 1..4
               /\ ecall.writes = ecall.off0..(eoff - 1)
        /\ \A i \in ecall.writes : i < esize
        /\ \A i \in 0..(Len(dst) - 1) :
               i \notin ecall.writes => At(dst, i) = At(ecall.dst0, i)

\* A 3 byte character was refused with two bytes of room left.
C9_Witness ==
    /\ Encoded /\ ecall.ch = 65535 /\ ecall.off0 + 2 = esize
    /\ ecall.rc = EOVERFLOW /\ NothingWritten

(***************************************************************************)
(* Claims about the sanitizer (SpecSan).                                   *)
(***************************************************************************)
\* The C index of the terminator of str.
RECURSIVE str_size(_, _)
str_size(str, i) == IF At(str, i) = 0 THEN i ELSE str_size(str, i + 1)

\* The bytes str_sanitize(str, n, ...) is about: those before the terminator
\* among the first n.
SanRange(str, n) ==
    Bytes(str, 0, IF n < str_size(str, 0) THEN n ELSE str_size(str, 0))

\* Every byte sequence of s decodes without error.
RECURSIVE DecodesWithoutError(_, _)
DecodesWithoutError(s, offset) ==
    IF offset >= Len(s) THEN TRUE
    ELSE LET r == _str_decode(s, offset, Len(s), 0)
         IN /\ r.ret # CHAR_INVALID /\ r.state = 0
            /\ DecodesWithoutError(s, r.offset)

\* s holds a C0 control (a byte below 0x20) or the encoding of a C1 control
\* (0xC2 followed by 0x80..0x9F).
HoldsControl(s) ==
    \E i \in 1..Len(s) :
        \/ s[i] < 32
        \/ s[i] = 194 /\ i < Len(s) /\ s[i + 1] < 160

\* C10 as stated: on a well-formed buffer str_sanitize returns 0 and leaves
\* the buffer unchanged, the first time and the second.
C10_WellFormedUntouched ==
    (scalls >= 1 /\ DecodesWithoutError(SanRange(sprev, sn), 0)) =>
        (scount = 0 /\ smem = sprev)

\* C10 amended: on a well-formed buffer that holds no C0 and no C1 control
\* code str_sanitize returns 0 and leaves the buffer unchanged, the first
\* time and the second.
C10_ControlFreeUntouched ==
    (/\ scalls >= 1
     /\ DecodesWithoutError(SanRange(sprev, sn), 0)
     /\ ~HoldsControl(SanRange(sprev, sn))) =>
        (scount = 0 /\ smem = sprev)

\* A buffer of a 1 byte and a 3 byte character was sanitized twice.
C10_Witness ==
    /\ scalls = 2 /\ scount = 0 /\ smem = sprev
    /\ SanRange(sprev, sn) = <<65, 237, 128, 128>>



\* C11: sanitizer postcondition.  After str_sanitize(buf, n, r) with a
\* printable ASCII r the number of bytes before the terminator is unchanged,
\* every byte keeps its value or holds r, bytes at and after index n keep
\* their value, and the sanitized bytes within the first n decode without
\* INVALID and without an unfinished sequence.
C11_SanitizerPostcondition ==
    (scalls >= 1 /\ srp \in 32..126) =>
        /\ Len(smem) = Len(sprev)
        /\ str_size(smem, 0) = str_size(sprev, 0)
        /\ \A i \in 1..Len(smem) : smem[i] = sprev[i] \/ smem[i] = srp
        /\ \A i \in 1..Len(smem) : i > sn => smem[i] = sprev[i]
        /\ DecodesWithoutError(SanRange(smem, sn), 0)

\* A 3 byte leader followed by one continuation byte and a letter was
\* sanitized: the leader and the continuation byte were replaced.
C11_Witness ==
    /\ scalls = 1 /\ sn = 3 /\ scount = 2
    /\ sprev = <<224, 160, 65, 0>>
    /\ smem = <<srp, srp, 65, 0>>


(***************************************************************************)
(* Claims about bounded copy and append (SpecCpy).                         *)
(***************************************************************************)
\* The string in the destination, and the one it held before the call.
DestString == Bytes(cdst, 0, _str_size(cdst))
OldString == Bytes(ccall.dst0, 0, _str_size(ccall.dst0))
SrcString == Bytes(csrc, 0, _str_size(csrc))

\* The indices of the memory whose byte the call changed.
Changed == {i \in 0..(MemLen - 1) : At(cdst, i) # At(ccall.dst0, i)}

\* What str_cpy and str_append put in place of a byte: U_SPECIAL.
Replaced(b) == IF b < 32 \/ b >= 128 THEN {b, U_SPECIAL} ELSE {b}

\* C12: bounded-copy safety.  After str_cpy with a capacity of at least 1
\* the destination holds a zero byte below the capacity, the string in it is
\* made of at most capacity - 1 bytes, one for each of the first source
\* bytes, and no byte at or beyond the capacity has changed.
C12_BoundedCopy ==
    ccall.op = "str_cpy" =>
        /\ \E i \in 0..(MemLen - 1) : i < csize /\ At(cdst, i) = 0
        /\ Len(DestString) <= csize - 1
        /\ Len(DestString) <= Len(SrcString)
        /\ Len(DestString) = Len(SrcString) \/ Len(DestString) = csize - 1
        /\ \A i \in 1..Len(DestString) : DestString[i] \in Replaced(SrcString[i])
        /\ \A i \in ccall.writes : i < csize
        /\ Changed \subseteq ccall.writes

\* A 3 byte source was copied into a destination of capacity 3: two bytes
\* and the terminator.
C12_Witness ==
    /\ ccall.op = "str_cpy" /\ csize = 3
    /\ csrc = <<65, 65, 65, 0>>
    /\ DestString = <<65, 65>>
    /\ At(cdst, 3) = 170


RECURSIVE ScalarsOf(_, _)
ScalarsOf(s, offset) ==
    LET d == str_decode(s, offset, STR_NO_LIMIT)
    IN IF d.ch = 0 THEN <<>> ELSE <<d.ch>> \o ScalarsOf(s, d.offset)

\* The lexicographic order of two scalar sequences, the shorter one padded
\* with zero: -1, 0 or 1.
RECURSIVE LexOrder(_, _)
LexOrder(u, v) ==
    IF u = <<>> /\ v = <<>> THEN 0
    ELSE IF u = <<>> THEN -1
    ELSE IF v = <<>> THEN 1
    ELSE IF u[1] < v[1] THEN -1
    ELSE IF u[1] > v[1] THEN 1
    ELSE LexOrder(Tail(u), Tail(v))

\* C14: ordering.  For well-formed strings str_cmp returns -1, 0 or 1
\* according to the lexicographic order of their scalar sequences, a proper
\* prefix comparing less, and so agrees with str_lcmp without limit.
C14_Ordering ==
    cmpres.op = "str_cmp" =>
        /\ cmpres.ret = LexOrder(ScalarsOf(cmp1, 0), ScalarsOf(cmp2, 0))
        /\ cmpres.ret = str_lcmp(cmp1, cmp2, STR_NO_LIMIT)


(***************************************************************************)
(* Claims about the tokenizer (SpecTok).                                   *)
(***************************************************************************)
\* The maximal runs of characters of w that are not in D, in order; run is
\* the run being read.
RECURSIVE Runs(_, _, _)
Runs(w, D, run) ==
    IF w = <<>> THEN (IF run = <<>> THEN <<>> ELSE <<run>>)
    ELSE IF w[1] \in D
         THEN (IF run = <<>> THEN <<>> ELSE <<run>>) \o Runs(Tail(w), D, <<>>)
         ELSE Runs(Tail(w), D, Append(run, w[1]))

\* The tokens of the original string: the runs of its scalars that are not
\* delimiters, each as a zero-terminated string.
ExpectedTokens ==
    LET d == ScalarsOf(tdelim, 0)
        D == {d[i] : i \in 1..Len(d)}
        runs == Runs(ScalarsOf(tbuf0, 0), D, <<>>)
    IN [i \in 1..Len(runs) |-> Utf8(runs[i])]

\* The zero-terminated string at the index i of the buffer.
TokenAt(i) == Bytes(tbuf, i, i + _str_size(Bytes(tbuf, i, Len(tbuf))) + 1)

\* C15: tokenizer sequence.  The pointers returned so far by the calls of
\* str_tok, each with the continuation pointer of the call before, point at
\* the first maximal runs of non-delimiter scalars of the original string,
\* in order, each zero-terminated in the buffer by a zero over the first
\* byte of the delimiter after it; once a call has returned NULL they are
\* all the runs; the buffer differs from the original by those zeros only;
\* every continuation pointer is inside the original buffer.  The iteration
\* ends after finitely many calls: every call adds a pointer or returns
\* NULL, and the pointers never outnumber the runs.
C15_TokenizerSequence ==
    \E exp \in {ExpectedTokens} :
        /\ Len(ttoks) <= Len(exp)
        /\ \A i \in 1..Len(ttoks) : TokenAt(ttoks[i]) = exp[i]
        /\ tdone => Len(ttoks) = Len(exp)
        /\ ts \in 0..(Len(tbuf0) - 1)
        /\ Len(tbuf) = Len(tbuf0)
        /\ \A i \in 1..Len(tbuf) :
              tbuf[i] # tbuf0[i] =>
                 /\ tbuf[i] = 0
                 /\ \E k \in 1..Len(ttoks) : i = ttoks[k] + Len(exp[k])

\* "  a,b " with the delimiters " ," gave "a", then "b", then NULL.
C15_Witness ==
    /\ tbuf0 = <<32, 32, 97, 44, 98, 32, 0>>
    /\ tdelim = <<32, 44, 0>>
    /\ tdone
    /\ ttoks = <<2, 4>>
    /\ tbuf = <<32, 32, 97, 0, 98, 0, 0>>


(***************************************************************************)
(* Claims about str_lsize (SpecLsz).                                       *)
(***************************************************************************)
\* The first n elements of the sequence w, all of them if it has fewer.
Prefix(w, n) == SubSeq(w, 1, IF n < Len(w) THEN n ELSE Len(w))

\* C16: str_lsize(str, max_len) returns the number of bytes of the first
\* min(max_len, str_length(str)) characters of str, the terminator not
\* counted; when max_len is greater than the length of str that is
\* str_size(str).
C16_LengthLimitedSize ==
    lres.op = "str_lsize" =>
        /\ lres.ret = _str_size(Utf8(Prefix(ScalarsOf(lstr, 0), lmax)))
        /\ lmax > Len(ScalarsOf(lstr, 0)) => lres.ret = _str_size(lstr)


(***************************************************************************)
(* Claims about right-trim (SpecTrim).                                     *)
(***************************************************************************)
\* w without its maximal trailing run of ch.
RECURSIVE WithoutTrailing(_, _)
WithoutTrailing(w, ch) ==
    IF w # <<>> /\ w[Len(w)] = ch
    THEN WithoutTrailing(SubSeq(w, 1, Len(w) - 1), ch)
    ELSE w

\* 'a' for U+00E9 and U+00E9 for 'a': the same logical input for the other
\* path of str_rtrim.
Swapped(c) == IF c = 97 THEN 233 ELSE IF c = 233 THEN 97 ELSE c
SwappedString(w) == [i \in 1..Len(w) |-> Swapped(w[i])]

\* C17: right-trim.  After str_rtrim(str, ch) the string is the original
\* without its maximal trailing run of ch: it does not end with ch, and is
\* empty if it was made of ch only; no byte after the original terminator
\* is written; and the ASCII path and the decoding path give the same
\* result on the same logical input.
C17_RightTrim ==
    rres.op = "str_rtrim" =>
        LET w0 == ScalarsOf(rres.str0, 0)
            w == ScalarsOf(rstr, 0)
        IN /\ w = WithoutTrailing(w0, rch)
           /\ w = <<>> \/ w[Len(w)] # rch
           /\ At(rstr, _str_size(rres.str0) + 1) = 170
           /\ w = SwappedString(ScalarsOf(
                     str_rtrim(Append(Utf8(SwappedString(w0)), 170), Swapped(rch)),
                     0))


(***************************************************************************)
(* Claims about str_to_utf16 (SpecU16).                                    *)
(***************************************************************************)
\* The UTF-16 units of a scalar sequence.
RECURSIVE Utf16Of(_)
Utf16Of(w) ==
    IF w = <<>> THEN <<>>
    ELSE (IF Head(w) >= 65536
          THEN <<55296 + ((Head(w) - 65536) \div 1024),
                 56320 + ((Head(w) - 65536) % 1024)>>
          ELSE <<Head(w)>>) \o Utf16Of(Tail(w))

\* C18: UTF-16 encoding.  The units str_to_utf16 has written before the
\* terminator are the leading units of the UTF-16 form of the source's
\* scalars, a scalar of 0x10000 or more (0x10000 included) as the pair
\* 0xD800 + ((c - 0x10000) >> 10), 0xDC00 + ((c - 0x10000) & 0x3FF) and a
\* smaller one as the unit c, and none of them is zero.
C18_Utf16Encoding ==
    ures.op = "str_to_utf16" =>
        LET out == Bytes(udest, 0, ures.idx)
            exp == Utf16Of(ScalarsOf(usrc, 0))
        IN /\ Len(out) <= Len(exp)
           /\ out = SubSeq(exp, 1, Len(out))
           /\ \A i \in 1..Len(out) : out[i] # 0


(***************************************************************************)
(* Claims about wstr_to_str and utf16_to_str (SpecConv).                   *)
(***************************************************************************)
\* The destination holds a zero within its xsize bytes.
Terminated == \E i \in 0..(xsize - 1) : At(xdest, i) = 0

\* C19: transcoder output is always well-formed.  After wstr_to_str or
\* utf16_to_str, for every size of 1 or more and every source, the
\* destination is zero-terminated within size bytes and the string in it
\* decodes without an error: no over-long, surrogate or truncated sequence.
C19_WellFormedOutput ==
    xres.op # "none" =>
        /\ Terminated
        /\ DecodesWithoutError(Bytes(xdest, 0, _str_size(xdest)), 0)

\* The index of the first high surrogate of src that no low surrogate
\* follows, the pairs before it taken together; NULL if there is none.
RECURSIVE FirstUnpaired(_, _)
FirstUnpaired(src, idx) ==
    IF At(src, idx) = 0 THEN NULL
    ELSE IF At(src, idx) \in 55296..56319
         THEN IF At(src, idx + 1) \in 56320..57343
              THEN FirstUnpaired(src, idx + 2)
              ELSE idx
    ELSE FirstUnpaired(src, idx + 1)

\* The values of the units units[from..], a pair taken as its scalar.
RECURSIVE PairUp(_, _)
PairUp(units, from) ==
    IF from > Len(units) THEN <<>>
    ELSE IF units[from] \in 55296..56319 /\ from < Len(units)
            /\ units[from + 1] \in 56320..57343
         THEN <<65536 + ((units[from] - 55296) * 1024)
                      + (units[from + 1] - 56320)>>
              \o PairUp(units, from + 2)
    ELSE <<units[from]>> \o PairUp(units, from + 1)

\* The conversion of the units before the first unpaired high surrogate,
\* zero-terminated.
BeforeUnpaired == Utf8(PairUp(Bytes(xsrc, 0, FirstUnpaired(xsrc, 0)), 1))

\* utf16_to_str has returned after meeting an unpaired high surrogate: the
\* conversion of the units before it has room in the destination.
MetUnpaired ==
    /\ xres.op = "utf16_to_str"
    /\ FirstUnpaired(xsrc, 0) # NULL
    /\ Len(BeforeUnpaired) <= xsize

\* C20: unpaired high surrogate.  When utf16_to_str meets a high surrogate
\* that no low surrogate follows, it stops as if the source ended there:
\* the destination holds the conversion of the units before it,
\* zero-terminated, and the call returns EOK.
C20_UnpairedHighSurrogate ==
    MetUnpaired =>
        /\ Bytes(xdest, 0, Len(BeforeUnpaired)) = BeforeUnpaired
        /\ xres.rc = EOK

\* An unpaired high surrogate was met after U+20AC, a character follows it
\* and the destination has room for more.
C20_Witness ==
    /\ MetUnpaired
    /\ FirstUnpaired(xsrc, 0) = 1
    /\ At(xsrc, 0) = 8364 /\ At(xsrc, 2) = 65
    /\ xsize = MaxSize


(***************************************************************************)
(* Claims about str_ncpy (SpecNcpy).                                       *)
(***************************************************************************)
\* C21: str_ncpy(dest, size, src, n) reads no more than the first n bytes
\* of src, the indices 0..n-1, so a source of n bytes without a terminator
\* is not read out of bounds.
C21_ReadsWithinN ==
    ncall.op = "str_ncpy" => \A i \in ncall.reads : i < nn

\* The size of the string in the memory s: the index of its first zero, the
\* length of s if it holds none.
RECURSIVE SizeIn(_, _)
SizeIn(s, i) == IF i >= Len(s) \/ At(s, i) = 0 THEN i ELSE SizeIn(s, i + 1)

\* The first k bytes of src, sanitized.
SanitizedPrefix(src, k) ==
    Bytes(_str_sanitize(Append(Bytes(src, 0, k), 0), k, U_SPECIAL).str, 0, k)

\* C30: str_ncpy is safe for every n.  For every size of 1 or more and
\* every n, the largest size_t included, the call does not fail the
\* assertion of the internal copy and leaves dest zero-terminated within
\* size bytes, holding the sanitized first min(size - 1, n, str_size(src))
\* bytes of src.
C30_NcpySafeForEveryN ==
    ncall.op # "none" =>
        LET k == min(min(nsize - 1, nn), SizeIn(nsrc, 0))
        IN /\ ncall.op # "abort"
           /\ SizeIn(ndst, 0) < nsize
           /\ SizeIn(ndst, 0) = k
           /\ Bytes(ndst, 0, k) = SanitizedPrefix(nsrc, k)


(***************************************************************************)
(* Claims about the default state of mbrtoc32 (SpecFib).                   *)
(***************************************************************************)
\* The state a fibril running alone has after passing the first k bytes of
\* s, and the results it has got.
RECURSIVE AloneState(_, _)
AloneState(s, k) ==
    IF k = 0 THEN 0 ELSE mbrtoc32_default(s[k], AloneState(s, k - 1)).state

AloneResults(s, k) ==
    [i \in 1..k |-> mbrtoc32_default(s[i], AloneState(s, i - 1)).res]

\* C22: the default decoder state is context-local.  Under every
\* interleaving of the calls of two fibrils that pass no state, a fibril
\* gets the results it would get running alone, and the sequence it has
\* left pending is neither completed nor reset by the other one: its
\* default state is the one it would have alone.
C22_DefaultStateLocal ==
    \A f \in Fibrils :
        /\ fres[f] = AloneResults(fin[f], fpos[f])
        /\ gstate[f] = AloneState(fin[f], fpos[f])

\* The fibril 1 has left a leader pending, the fibril 2 has then passed a
\* character of its own and the fibril 1 has completed its sequence.
C22_Witness ==
    /\ fpos[1] = 2 /\ fin[1][1] = 194 /\ fin[1][2] = 160
    /\ fpos[2] = 1 /\ fin[2][1] = 65
    /\ fres[1][1].wret = UCHAR_INCOMPLETE
    /\ fres[1][2].wret = 1 /\ fres[1][2].c = 160
    /\ fres[2][1].c = 65


(***************************************************************************)
(* Claims about the metrics (SpecMet).                                     *)
(***************************************************************************)
\* The metric running has not passed the terminator, has counted no more
\* than the bytes it has consumed, and the values returned are as claimed.
MetricsBounded ==
    /\ mfn # "done" =>
          /\ moff <= _str_size(mstr)
          /\ mcount <= moff
    /\ mret # <<>> =>
          /\ mret["str_length"] <= _str_size(mstr)
          /\ mret["str_nlength"] <= _str_size(mstr)
          /\ mret["str_width"] # NULL => mret["str_width"] = mret["str_length"]

\* A turn that does not return has consumed at least one byte and added
\* exactly one to the count.
MetricsAdvance ==
    (mfn' = mfn /\ mfn # "done") => (moff' > moff /\ mcount' = mcount + 1)

\* C23: the metrics terminate on malformed input.  For every
\* zero-terminated byte string every turn of the loops of str_length,
\* str_nlength and str_width consumes at least one byte and adds exactly
\* one to the count, a decode error included, and the offset does not pass
\* the terminator, so the loops end; str_length(s) <= str_size(s) and
\* str_width(s) = str_length(s).
C23_MetricsTerminate == []MetricsBounded /\ [][MetricsAdvance]_vars

\* The three metrics have returned for a malformed string: a 3 byte leader
\* with one continuation byte, then a character.
C23_Witness ==
    /\ mfn = "done"
    /\ mstr = <<224, 160, 65, 0>>
    /\ mret["str_length"] = 2 /\ mret["str_width"] = 2
    /\ msize = 2 /\ mret["str_nlength"] = 1


(***************************************************************************)
(* Claims about the pending leader (SpecDec).                              *)
(***************************************************************************)
\* The number of continuation bytes the leader b asks for; 0 if b is no
\* leader of a 2, 3 or 4 byte sequence (0xC0 and 0xC1 are refused as
\* leaders).
Required(b) ==
    IF b \in 194..223 THEN 1
    ELSE IF b \in 224..239 THEN 2
    ELSE IF b \in 240..247 THEN 3
    ELSE 0

\* The byte b is accepted at the place k (1 the first) after the leader: it
\* is a continuation byte, and as the first one it starts neither a
\* non-shortest form nor a surrogate.
Accepted(leader, k, b) ==
    /\ b \in 128..191
    /\ k = 1 =>
          /\ ~(leader = 224 /\ b < 160)
          /\ ~(leader = 240 /\ b < 144)
          /\ ~(leader = 237 /\ b >= 160)

\* A call entered with a clean state has read a leader whose continuation
\* bytes are not all there below the limit as continuation bytes.
LeaderCutShort ==
    /\ Called /\ call.mb0 = 0 /\ call.off0 < call.size
    /\ Required(At(inp, call.off0)) > 0
    /\ ~(/\ call.off0 + Required(At(inp, call.off0)) < call.size
         /\ \A k \in 1..Required(At(inp, call.off0)) :
               At(inp, call.off0 + k) \in 128..191)

\* The places after the leader, below the limit, that hold a byte that is
\* not accepted.
Refused ==
    {k \in 1..(call.size - call.off0 - 1) :
        ~Accepted(At(inp, call.off0), k, At(inp, call.off0 + k))}

\* C24 as stated: the call stores a non-zero state and returns 0 having
\* consumed only the leader byte, whatever follows the leader below the
\* limit.
C24_OnlyLeaderConsumed ==
    LeaderCutShort =>
        /\ call.state # 0
        /\ call.ret = 0
        /\ call.offset = call.off0 + 1

\* C24: pending leader.  When the decoder in clean state reads a 2, 3 or 4
\* byte leader and the continuation bytes it asks for are not all there
\* below the limit, then: with the leader the last byte below the limit,
\* the call stores a non-zero state and returns 0 having consumed only the
\* leader byte; with every byte that follows below the limit accepted, it
\* consumes these bytes too, up to the limit, stores a non-zero state and
\* returns 0; otherwise it returns INVALID with the state clean and the
\* cursor on the first byte it refuses.
C24_PendingLeader ==
    LeaderCutShort =>
        IF call.off0 + 1 = call.size
        THEN call.state # 0 /\ call.ret = 0 /\ call.offset = call.off0 + 1
        ELSE IF Refused = {}
        THEN call.state # 0 /\ call.ret = 0 /\ call.offset = call.size
        ELSE /\ call.ret = CHAR_INVALID /\ call.state = 0
             /\ \E k \in Refused :
                   /\ call.offset = call.off0 + k
                   /\ \A j \in Refused : k <= j

\* A 4 byte leader was read with two continuation bytes below the limit:
\* the call has consumed the three bytes and left the sequence pending.
C24_Witness ==
    /\ LeaderCutShort
    /\ At(inp, call.off0) = 240
    /\ call.size = call.off0 + 3
    /\ call.offset = call.size /\ call.state # 0 /\ call.ret = 0


(***************************************************************************)
(* Claims about the repair policy of the sanitizer (SpecSan).              *)
(***************************************************************************)
\* The memory s, sanitized over n bytes, begins with a multi-byte leader
\* that is truncated or not followed by the continuation bytes it asks for.
LeaderUnfollowed(s, n) ==
    /\ n > 0
    /\ Required(At(s, 0)) > 0
    /\ ~(/\ Required(At(s, 0)) < n
         /\ \A k \in 1..Required(At(s, 0)) : At(s, k) \in 128..191)

\* The memory s holds a leader, k continuation bytes, fewer than it asks
\* for, and the terminator.
OrphanRun(s, k) ==
    /\ Len(s) = k + 2
    /\ Required(At(s, 0)) > k
    /\ \A i \in 1..k : At(s, i) \in 128..191
    /\ At(s, k + 1) = 0

\* C25: byte-granular repair.  A multi-byte leader that is truncated or not
\* followed by the continuation bytes it asks for is replaced alone, and
\* the bytes after it are judged as a string of their own; a leader
\* followed by k orphaned continuation bytes ends as k + 1 replacement
\* bytes with the count k + 1; a C0 control byte is replaced, and counted
\* once.
C25_ByteGranularRepair ==
    scalls >= 1 =>
        /\ LeaderUnfollowed(sprev, sn) =>
              LET rest == _str_sanitize(Tail(sprev), sn - 1, srp)
              IN /\ smem = <<srp>> \o rest.str
                 /\ scount = 1 + rest.count
        /\ \A k \in 0..2 :
              (OrphanRun(sprev, k) /\ sn > k) =>
                  /\ smem = [i \in 1..(k + 2) |-> IF i <= k + 1 THEN srp ELSE 0]
                  /\ scount = k + 1
        /\ \A i \in 0..(Len(sprev) - 1) :
              (i < sn /\ i < str_size(sprev, 0) /\ At(sprev, i) < 32)
                  => At(smem, i) = srp
        /\ (\A i \in 1..Len(sprev) : sprev[i] < 128) =>
              scount = Cardinality({i \in 0..(str_size(sprev, 0) - 1) :
                                       i < sn /\ At(sprev, i) < 32})

\* A 4 byte leader with two continuation bytes was sanitized: three
\* replacements.
C25_Witness ==
    /\ scalls = 1 /\ sn >= 3 /\ scount = 3
    /\ sprev = <<240, 160, 128, 0>>
    /\ smem = <<srp, srp, srp, 0>>


(***************************************************************************)
(* Claims about reverse decoding (SpecRev).                                *)
(***************************************************************************)
\* The scalars of vstr, forward.
Forward == ScalarsOf(vstr, 0)

\* vstr is well-formed.
RevWellFormed == DecodesWithoutError(Bytes(vstr, 0, _str_size(vstr)), 0)

\* The continuation bytes that end at the index from - 1, counted
\* backwards, at most 4.
RECURSIVE ScannedBack(_, _, _)
ScannedBack(s, from, c) ==
    IF from > 0 /\ c < 4 /\ At(s, from - 1) \in 128..191
    THEN ScannedBack(s, from - 1, c + 1)
    ELSE c

\* The last call has met, after the continuation bytes it scanned, a byte
\* that declares another number of them.
CountMismatch ==
    LET c == ScannedBack(vstr, vlast.off0, 0)
    IN /\ vlast.off0 # NULL /\ vlast.off0 - c > 0 /\ c < 4
       /\ LET b == At(vstr, vlast.off0 - c - 1)
          IN c # (IF b < 128 THEN 0 ELSE Required(b))

\* C26: reverse decoding mirrors forward decoding.  Walking a well-formed
\* string back from its end, str_decode_reverse returns the scalars of
\* forward decoding in reverse order, each call leaving the offset on the
\* first byte of the character it returned; a call never moves the offset
\* before 0 nor by more than 4 bytes; at offset 0 it returns 0; a leader
\* that declares another number of continuation bytes than were scanned
\* gives U_SPECIAL.
C26_ReverseMirrorsForward ==
    vlast.off0 # NULL =>
        /\ RevWellFormed =>
              LET n == Len(Forward)
                  k == Len(vout)
              IN /\ k <= n
                 /\ \A i \in 1..k : vout[i] = Forward[n + 1 - i]
                 /\ voff = Len(Utf8(SubSeq(Forward, 1, n - k))) - 1
                 /\ vlast.ret = 0 => k = n
        /\ voff >= 0 /\ voff <= vlast.off0 /\ vlast.off0 - voff <= 4
        /\ vlast.off0 = 0 => vlast.ret = 0 /\ voff = 0
        /\ vlast.off0 > 0 => vlast.ret # 0 /\ voff < vlast.off0
        /\ CountMismatch => vlast.ret = U_SPECIAL

\* A well-formed string of a 4 byte, a 3 byte and a 1 byte character was
\* walked back to its start.
C26_Witness ==
    /\ vstr = Utf8(<<66560, 8364, 97>>)
    /\ vout = <<97, 8364, 66560>>
    /\ vlast.ret = 0 /\ voff = 0


(***************************************************************************)
(* Claims about the frame of str_append (SpecCpy).                         *)
(***************************************************************************)
\* The memory s holds a zero within its first size bytes.
TerminatedWithin(s, size) ==
    \E i \in 0..(Len(s) - 1) : i < size /\ At(s, i) = 0

\* C27: bounded append frame.  str_append(dest, size, src) leaves every
\* byte of dest before its terminator as it was, writes no byte at an
\* index of size or more, leaves dest zero-terminated within size bytes if
\* it was so before the call, and modifies nothing when the content of dest
\* fills the buffer.
C27_AppendFrame ==
    ccall.op = "str_append" =>
        /\ \A i \in 0..(_str_size(ccall.dst0) - 1) :
              At(cdst, i) = At(ccall.dst0, i) /\ i \notin ccall.writes
        /\ \A i \in ccall.writes : i < csize
        /\ TerminatedWithin(ccall.dst0, csize) => TerminatedWithin(cdst, csize)
        /\ ~TerminatedWithin(ccall.dst0, csize) =>
              cdst = ccall.dst0 /\ ccall.writes = {}

\* A string of two bytes was appended to a string of two bytes in a buffer
\* of four: one byte and the terminator were written.
C27_Witness ==
    /\ ccall.op = "str_append" /\ csize = 4
    /\ _str_size(ccall.dst0) = 2 /\ _str_size(csrc) = 2
    /\ ccall.writes = {2, 3}
    /\ _str_size(cdst) = 3


(***************************************************************************)
(* Claims about the destination of str_to_utf16 (SpecU16).                 *)
(***************************************************************************)
\* C28: UTF-16 destination bounds.  For every dlen of 1 or more and every
\* source, str_to_utf16(dest, dlen, src) leaves the units at the indices
\* dlen and above as they were (0xAAAA, a unit no conversion writes),
\* leaves a zero unit among the first dlen units, and returns EOVERFLOW
\* only when the converted string and its terminator do not fit in dlen
\* units.
C28_Utf16DestinationBounds ==
    ures.op = "str_to_utf16" =>
        /\ \A i \in udlen..(Len(udest) - 1) : At(udest, i) = 43690
        /\ \E i \in 0..(udlen - 1) : At(udest, i) = 0
        /\ ures.rc = EOVERFLOW =>
              Len(Utf16Of(ScalarsOf(usrc, 0))) + 1 > udlen

(***************************************************************************)
(* Claims about the writes of str_rtrim (SpecTrim).                        *)
(***************************************************************************)
\* C29: str_rtrim writes only inside the original string.  For every
\* zero-terminated string, the empty one and one made of ch only included,
\* the bytes after the original terminator are as they were.
C29_RtrimWritesInside ==
    rres.op = "str_rtrim" =>
        \A i \in 0..(Len(rstr) - 1) :
            i > _str_size(rres.str0) => At(rstr, i) = At(rres.str0, i)

=============================================================================
